---- MODULE Spec2Model ----
(***************************************************************************)
(* A model of tableroll: the handoff of file descriptors between           *)
(* independent processes that share one coordination directory.            *)
(*                                                                         *)
(* Every process runs one Upgrader.  The goroutines of a process are       *)
(* modelled by program counters: `phase' is the position of the caller of  *)
(* New / Ready, `stopPc' the position of a call of Stop, and `hpc[q]' the  *)
(* position of the goroutine handleUpgradeRequest that serves the          *)
(* connection dialed by process q (a process dials at most once, in New,   *)
(* so a connection is named by its dialing process).  A handler that has   *)
(* returned stays at the name of the return it took: "refused" (or         *)
(* "refusedDraining" when the reason it logged names the state Draining),  *)
(* "failedStopped", "remainedOwner" or "completed"; "dropped" is a         *)
(* connection that was never accepted, "crashed" a handler of a process    *)
(* that panicked.                                                          *)
(***************************************************************************)
EXTENDS Naturals, Integers, Sequences, FiniteSets, TLC

\* ---------------------------------------------------------------- bounds
\* Number of processes that are ever launched on the coordination directory.
NumProcs == 3
\* Number of distinct ids the application uses in its FD store.
NumFdIds == 1

\* Number of processes on which the application calls Stop.
MaxStops == 1
\* Number of handoffs whose upgrade timer fires.
MaxTimeouts == 1
\* Number of distinct ids in the store whose transfer is followed frame by
\* frame.
NumStoreIds == 3

\* Number of descriptors a process may have open for application files.
MaxFd == 3
\* Number of handles the applications hold open at one time.
MaxHandles == 1

Procs == 1..NumProcs
\* The descriptor numbers of a process that application files may get.
Fd == 1..MaxFd
FdIds == 1..NumFdIds
\* An empty owner-id file, a nil connection, a free lock.
NoProc == 0
\* fd.file == nil: a catalog entry without a file.
NoFile == 0

\* ------------------------------------------------------------ constants
\* internal/proto: the protocol version this code speaks and its bytes.
ProtoVersion == 1
V0NotifyReady == 42
V1StartReadyHandshake == 66
V1MessageSteppingDown == "stepping down"

\* upgraderState
upgraderStateCheckingOwner == "checking-owner"
upgraderStateOwner == "owner"
upgraderStateTransferringOwnership == "transferring-ownership"
upgraderStateDraining == "draining"
upgraderStateStopped == "stopped"

\* The lock reasons of the FD store; "nil" is Go's nil error.
ErrNil == "nil"
ErrUpgradeInProgress == "an upgrade is currently in progress"
ErrUpgradeCompleted == "an upgrade has completed"
ErrUpgraderStopped == "the upgrader has been marked as stopped"
ErrNoElement == "no element in map"
ErrAddrInUse == "bind: address already in use"

VARIABLES
    phase,            \* position of the process's main goroutine (New, Ready)
    state,            \* Upgrader.state
    upgradeCompleteC, \* Upgrader.upgradeCompleteC: "open" or "closed"
    stopPc,           \* position of the goroutine that called Stop
    listening,        \* Upgrader.upgradeSock is open and bound to <id>.sock
    fds,              \* Fds.fds: id -> the file (named by the process that opened it)
    locked,           \* Fds.locked
    lockedReason,     \* Fds.lockedReason
    idFile,           \* contents of the owner-id file dir/pid (NoProc: empty)
    flock,            \* holder of the advisory lock on dir/pid (NoProc: free)
    sessOwner,        \* upgradeSession.wr: the owner this process dialed (NoProc: nil)
    ownerEnd,         \* [q]: the owner's end of q's connection is open
    peerEnd,          \* [q]: q's end of its connection is open
    toPeer,           \* [q]: bytes written by the owner, not yet read by q
    toOwner,          \* [q]: bytes written by q, not yet read by the owner
    hpc,              \* [q]: position of the owner's handleUpgradeRequest for q
    passedFiles,      \* [q]: the handler's snapshot (Fds.copy) given to giveFDs
    timedOut,         \* [q]: "no", or where giveFDs was when the timeout watcher closed q's connection
    readyErr,         \* [p]: what Ready returned ("none" before it returns)
    ctxDone,          \* [p]: the context given to New has ended
    watcher,          \* [p]: position of the goroutine getFiles starts to watch the context
    newErr,           \* [p]: what New returned ("none" before it returns)
    sockFile,         \* [p]: the path dir/<id>.sock exists
    ownerVersion,     \* [p]: the version read from the owner's metadata frame
    wire,             \* the bytes written to an io.Writer and not yet read
    codec,            \* the call of the proto package that is followed, and its results
    fdTable,          \* [p]: the process's descriptors: the file each refers to (NoFile: closed)
    entryFd,          \* [p]: id -> file.fd, the descriptor held by the entry of the FD store
    handles           \* [p]: the descriptors returned to the application and not closed by it

vars == <<phase, state, upgradeCompleteC, stopPc, listening, fds, locked,
          lockedReason, idFile, flock, sessOwner, ownerEnd, peerEnd, toPeer,
          toOwner, hpc, passedFiles, timedOut, readyErr, ctxDone, watcher,
          newErr, sockFile, ownerVersion, wire, codec, fdTable, entryFd,
          handles>>

\* What the steps of a handoff without a construction context, without a
\* reused id and with v1 processes leave alone.
envVars == <<ctxDone, watcher, newErr, sockFile, ownerVersion, wire, codec,
            fdTable, entryFd, handles>>

\* The descriptors of the processes, and who holds them.
fileVars == <<fdTable, entryFd, handles>>

procVars == <<phase, state, upgradeCompleteC, stopPc, listening, readyErr>>
storeVars == <<fds, locked, lockedReason>>
coordVars == <<idFile, flock>>
connVars == <<sessOwner, ownerEnd, peerEnd, toPeer, toOwner>>
handlerVars == <<hpc, passedFiles, timedOut>>

\* The empty catalog: a function with an empty domain.
EmptyFds == [i \in {} |-> NoProc]

\* ------------------------------------------------------------ state machine
\* A faulty table: TransferringOwnership may be entered again from itself.
validTransitionsReentrant(from) ==
    CASE from = upgraderStateCheckingOwner ->
            {upgraderStateOwner, upgraderStateStopped}
      [] from = upgraderStateOwner ->
            {upgraderStateTransferringOwnership, upgraderStateStopped}
      [] from = upgraderStateTransferringOwnership ->
            {upgraderStateOwner, upgraderStateTransferringOwnership,
             upgraderStateDraining, upgraderStateStopped}
      [] from = upgraderStateDraining ->
            {upgraderStateDraining, upgraderStateStopped}
      [] from = upgraderStateStopped ->
            {upgraderStateStopped}
      [] OTHER -> {}

\* validTransitions
validTransitions(from) ==
    CASE from = upgraderStateCheckingOwner ->
            {upgraderStateOwner, upgraderStateStopped}
      [] from = upgraderStateOwner ->
            {upgraderStateTransferringOwnership, upgraderStateStopped}
      [] from = upgraderStateTransferringOwnership ->
            {upgraderStateOwner, upgraderStateDraining, upgraderStateStopped}
      [] from = upgraderStateDraining ->
            {upgraderStateDraining, upgraderStateStopped}
      [] from = upgraderStateStopped ->
            {upgraderStateStopped}
      [] OTHER -> {}

\* A faulty canTransitionTo: it never returns an error.
canTransitionToAlways(from, to) == TRUE

\* upgraderState.canTransitionTo: TRUE when it returns nil
canTransitionTo(from, to) == to \in validTransitions(from)

\* A faulty transitionTo: the state is set without asking the table.
transitionToUnchecked(from, to) == to

\* upgraderState.transitionTo: the state afterwards (unchanged on an error)
transitionTo(from, to) == IF canTransitionTo(from, to) THEN to ELSE from

\* ------------------------------------------------------------ wire messages
\* The metadata frame: the versioned JSON blob of the entries' metadata,
\* given by the list of their ids.
MetaMsg(files) == [type |-> "meta", version |-> ProtoVersion, files |-> files]
\* One file sent by sendFile (SCM_RIGHTS).
FdMsg(file) == [type |-> "fd", file |-> file]
ByteMsg(b) == [type |-> "byte", val |-> b]
VersionInformation(v) == [type |-> "version", version |-> v]
Message(m) == [type |-> "msg", msg |-> m]
\* What a read returns on a closed connection with nothing left to read.
EOF == [type |-> "eof"]

\* ------------------------------------------------------------ initial state
\* No context has ended, no socket path exists, nothing is on the wire.
\* No process has an open descriptor of an application file.
NoDescriptors ==
    /\ fdTable = [p \in Procs |-> [n \in Fd |-> NoFile]]
    /\ entryFd = [p \in Procs |-> EmptyFds]
    /\ handles = [p \in Procs |-> {}]

InitEnv ==
    /\ ctxDone = [p \in Procs |-> FALSE]
    /\ watcher = [p \in Procs |-> "none"]
    /\ newErr = [p \in Procs |-> "none"]
    /\ sockFile = [p \in Procs |-> FALSE]
    /\ ownerVersion = [p \in Procs |-> 0]
    /\ wire = <<>>
    /\ codec = [pc |-> "idle"]
    /\ NoDescriptors

\* No process has been launched, the directory is empty.
NoProcesses ==
    /\ phase = [p \in Procs |-> "unstarted"]
    /\ state = [p \in Procs |-> upgraderStateCheckingOwner]
    /\ upgradeCompleteC = [p \in Procs |-> "open"]
    /\ stopPc = [p \in Procs |-> "idle"]
    /\ listening = [p \in Procs |-> FALSE]
    /\ fds = [p \in Procs |-> EmptyFds]
    /\ locked = [p \in Procs |-> FALSE]
    /\ lockedReason = [p \in Procs |-> ErrNil]
    /\ idFile = NoProc
    /\ flock = NoProc
    /\ sessOwner = [p \in Procs |-> NoProc]
    /\ ownerEnd = [p \in Procs |-> FALSE]
    /\ peerEnd = [p \in Procs |-> FALSE]
    /\ toPeer = [p \in Procs |-> <<>>]
    /\ toOwner = [p \in Procs |-> <<>>]
    /\ hpc = [p \in Procs |-> "none"]
    /\ passedFiles = [p \in Procs |-> EmptyFds]
    /\ timedOut = [p \in Procs |-> "no"]
    /\ readyErr = [p \in Procs |-> "none"]

Init == NoProcesses /\ InitEnv

\* ------------------------------------------------------------ helpers
\* A function with one more (or one replaced) entry.
Put(f, k, v) == [x \in (DOMAIN f) \cup {k} |-> IF x = k THEN v ELSE f[x]]
\* A function without the entry k.
Drop(f, k) == [x \in (DOMAIN f) \ {k} |-> f[x]]

\* Both ends of q's connection are open: a write on it succeeds.
Writable(q) == ownerEnd[q] /\ peerEnd[q]

\* The main goroutine of p is inside Ready and holds Upgrader.stateLock.
InReady(p) == phase[p] \in {"readySentStart", "readyAwait"}

\* New has returned the Upgrader to the application and the process runs.
Constructed(p) == phase[p] \in {"constructed", "readySentStart", "readyAwait", "readied"}

\* The connections handled by the goroutines of owner o.
ConnsOf(o) == {q \in Procs : sessOwner[q] = o}

\* A coordinator that keeps the lock on Unlock.
UnlockKeepsLock(p) == flock

\* coordinator.Unlock: the holder of the advisory lock afterwards
Unlock(p) == IF flock = p THEN NoProc ELSE flock

\* The orders in which a range over a map with the keys S may visit them.
Orderings(S) ==
    {s \in [1..Cardinality(S) -> S] : \A i, j \in DOMAIN s : i # j => s[i] # s[j]}

\* sibling.giveFDs: of the slice fds (the ids in the order of the range)
\* the entries that have a file, in the same order.
HasFile(files, id) == files[id] # NoFile
validFds(order, files) == SelectSeq(order, LAMBDA id : HasFile(files, id))

\* sibling.giveFDs: what is written for the slice validFds: the metadata
\* frame, then one sendFile per entry in the order of the slice.
WireFrames(valid, files) ==
    <<MetaMsg(valid)>> \o [i \in 1..Len(valid) |-> FdMsg(files[valid[i]])]

\* A faulty pairing: the i-th entry is given the i-th file from the end.
RECURSIVE associateFromEnd(_, _, _)
associateFromEnd(meta, sockFiles, files) ==
    IF meta = <<>> THEN files
    ELSE associateFromEnd(Tail(meta), SubSeq(sockFiles, 1, Len(sockFiles) - 1),
                          Put(files, Head(meta), sockFiles[Len(sockFiles)]))

\* upgradeSession.getFiles: the loop that gives the i-th entry of the
\* metadata the i-th file received and stores it under the entry's id.
RECURSIVE associate(_, _, _)
associate(meta, sockFiles, files) ==
    IF meta = <<>> THEN files
    ELSE associate(Tail(meta), Tail(sockFiles),
                   Put(files, Head(meta), Head(sockFiles)))

\* ------------------------------------------------------------ FD store
\* Fds.listenerLocked / connLocked / fileLocked: the file a lookup of id
\* returns a handle of, NoFile when it returns nil.  The lock is not read.
LookupResult(p, id) ==
    IF id \in DOMAIN fds[p] /\ HasFile(fds[p], id) THEN fds[p][id] ELSE NoFile

\* A faulty add: the lock is tested before the store is searched.
AddResultLockFirst(p, id) ==
    IF locked[p] THEN lockedReason[p] ELSE ErrNil

\* Fds.Listen / ListenWith / DialWith / OpenFileWith: the error returned
\* for id: the entry found by the lookup is returned, otherwise the lock is
\* tested, otherwise the new file is stored.
AddResult(p, id) ==
    IF LookupResult(p, id) # NoFile THEN ErrNil
    ELSE IF locked[p] THEN lockedReason[p]
    ELSE ErrNil

\* A faulty Remove: it is rejected whenever the store is locked.
RemoveResultAnyLock(p, id) ==
    IF locked[p] THEN lockedReason[p]
    ELSE IF id \notin DOMAIN fds[p] THEN ErrNoElement
    ELSE ErrNil

\* Fds.Remove: the error returned for id
RemoveResult(p, id) ==
    IF locked[p] /\ lockedReason[p] = ErrUpgradeInProgress THEN lockedReason[p]
    ELSE IF id \notin DOMAIN fds[p] THEN ErrNoElement
    ELSE ErrNil

\* Fds.ListenWith / DialWith / OpenFileWith with an id that is not in the store
Add(p, id) ==
    /\ phase[p] = "readied"
    /\ id \notin DOMAIN fds[p]
    /\ AddResult(p, id) = ErrNil
    /\ fds' = [fds EXCEPT ![p] = Put(fds[p], id, p)]
    /\ UNCHANGED <<procVars, locked, lockedReason, coordVars, connVars, handlerVars>>
    /\ UNCHANGED envVars

\* Fds.Remove
Remove(p, id) ==
    /\ phase[p] = "readied"
    /\ RemoveResult(p, id) = ErrNil
    /\ fds' = [fds EXCEPT ![p] = Drop(fds[p], id)]
    /\ UNCHANGED <<procVars, locked, lockedReason, coordVars, connVars, handlerVars>>
    /\ UNCHANGED envVars

\* ------------------------------------------------------------ New
\* newUpgrader up to coordinator.Listen and `go serveUpgrades': the process
\* binds <id>.sock.  Processes are launched in the order of their ids.
\* coordinator.Listen binds dir/<id>.sock: the bind creates the path, and
\* fails when the path exists; New returns the error.
NewListen(p) ==
    /\ phase[p] = "unstarted"
    /\ \A r \in Procs : r < p => phase[r] # "unstarted"
    /\ IF sockFile[p]
       THEN /\ phase' = [phase EXCEPT ![p] = "failed"]
            /\ newErr' = [newErr EXCEPT ![p] = ErrAddrInUse]
            /\ UNCHANGED <<listening, sockFile>>
       ELSE /\ phase' = [phase EXCEPT ![p] = "locking"]
            /\ listening' = [listening EXCEPT ![p] = TRUE]
            /\ sockFile' = [sockFile EXCEPT ![p] = TRUE]
            /\ UNCHANGED newErr
    /\ UNCHANGED <<state, upgradeCompleteC, stopPc, readyErr, storeVars,
                   coordVars, connVars, handlerVars>>
    /\ UNCHANGED <<ctxDone, watcher, ownerVersion, wire, codec, fileVars>>

\* A faulty connect: the owner is dialed without the coordinator lock.
connectToCurrentOwnerUnlocked(p) ==
    /\ phase[p] = "locking"
    /\ IF idFile = NoProc \/ ~listening[idFile]
       THEN /\ phase' = [phase EXCEPT ![p] = "constructed"]
            /\ UNCHANGED <<connVars, hpc>>
       ELSE /\ phase' = [phase EXCEPT ![p] = "getFiles"]
            /\ sessOwner' = [sessOwner EXCEPT ![p] = idFile]
            /\ ownerEnd' = [ownerEnd EXCEPT ![p] = TRUE]
            /\ peerEnd' = [peerEnd EXCEPT ![p] = TRUE]
            /\ hpc' = [hpc EXCEPT ![p] = "queued"]
            /\ UNCHANGED <<toPeer, toOwner>>
    /\ UNCHANGED <<state, upgradeCompleteC, stopPc, listening, readyErr,
                   storeVars, coordVars, passedFiles, timedOut>>
    /\ UNCHANGED envVars

\* A faulty ConnectOwner: a refused dial is returned as an error, the
\* session is closed and New fails.
connectToCurrentOwnerRefusedFails(p) ==
    /\ phase[p] = "locking"
    /\ flock = NoProc
    /\ IF idFile = NoProc
       THEN /\ phase' = [phase EXCEPT ![p] = "constructed"]
            /\ flock' = p
            /\ UNCHANGED <<connVars, hpc>>
       ELSE IF ~listening[idFile]
       THEN /\ phase' = [phase EXCEPT ![p] = "failed"]
            /\ UNCHANGED <<flock, connVars, hpc>>
       ELSE /\ phase' = [phase EXCEPT ![p] = "getFiles"]
            /\ flock' = p
            /\ sessOwner' = [sessOwner EXCEPT ![p] = idFile]
            /\ ownerEnd' = [ownerEnd EXCEPT ![p] = TRUE]
            /\ peerEnd' = [peerEnd EXCEPT ![p] = TRUE]
            /\ hpc' = [hpc EXCEPT ![p] = "queued"]
            /\ UNCHANGED <<toPeer, toOwner>>
    /\ UNCHANGED <<state, upgradeCompleteC, stopPc, listening, readyErr,
                   storeVars, idFile, passedFiles, timedOut>>
    /\ UNCHANGED envVars

\* connectToCurrentOwner: coordinator.Lock, then coordinator.ConnectOwner.
\* With an empty owner-id file, or an owner that is not listening, the
\* session has no owner and getFiles returns no files.
connectToCurrentOwner(p) ==
    /\ phase[p] = "locking"
    /\ flock = NoProc
    /\ flock' = p
    /\ IF idFile = NoProc \/ ~listening[idFile]
       THEN /\ phase' = [phase EXCEPT ![p] = "constructed"]
            /\ UNCHANGED <<connVars, hpc>>
       ELSE /\ phase' = [phase EXCEPT ![p] = "getFiles"]
            /\ sessOwner' = [sessOwner EXCEPT ![p] = idFile]
            /\ ownerEnd' = [ownerEnd EXCEPT ![p] = TRUE]
            /\ peerEnd' = [peerEnd EXCEPT ![p] = TRUE]
            /\ hpc' = [hpc EXCEPT ![p] = "queued"]
            /\ UNCHANGED <<toPeer, toOwner>>
    /\ UNCHANGED <<state, upgradeCompleteC, stopPc, listening, readyErr,
                   storeVars, idFile, passedFiles, timedOut>>
    /\ UNCHANGED envVars

\* A faulty becomeOwner: the session is closed after getFiles has returned
\* the files as well, so the lock is released when New returns.
getFilesClosesSession(p) ==
    /\ phase[p] = "getFiles"
    /\ \/ /\ toPeer[p] # <<>>
          /\ Head(toPeer[p]).type = "meta"
          /\ LET meta == Head(toPeer[p]).files
                 sockFiles == [i \in 1..Len(meta) |-> toPeer[p][i + 1].file]
             IN /\ fds' = [fds EXCEPT ![p] = associate(meta, sockFiles, EmptyFds)]
                /\ toPeer' = [toPeer EXCEPT ![p] =
                                 SubSeq(@, Len(meta) + 2, Len(@))]
          /\ phase' = [phase EXCEPT ![p] = "constructed"]
          /\ flock' = Unlock(p)
          /\ UNCHANGED peerEnd
       \/ /\ toPeer[p] = <<>>
          /\ ~ownerEnd[p]
          /\ peerEnd' = [peerEnd EXCEPT ![p] = FALSE]
          /\ flock' = Unlock(p)
          /\ phase' = [phase EXCEPT ![p] = "failed"]
          /\ UNCHANGED <<fds, toPeer>>
    /\ UNCHANGED <<state, upgradeCompleteC, stopPc, listening, readyErr,
                   locked, lockedReason, idFile, sessOwner, ownerEnd, toOwner,
                   handlerVars>>
    /\ UNCHANGED envVars

\* upgradeSession.getFiles with an owner: the metadata is read, then one
\* file per entry of the metadata, and the pairs are put into the new
\* store; or the read fails and becomeOwner closes the session.
getFilesFrames(p) ==
    /\ phase[p] = "getFiles"
    /\ \/ /\ toPeer[p] # <<>>
          /\ Head(toPeer[p]).type = "meta"
          /\ LET meta == Head(toPeer[p]).files
                 sockFiles == [i \in 1..Len(meta) |-> toPeer[p][i + 1].file]
             IN /\ fds' = [fds EXCEPT ![p] = associate(meta, sockFiles, EmptyFds)]
                /\ toPeer' = [toPeer EXCEPT ![p] =
                                 SubSeq(@, Len(meta) + 2, Len(@))]
          /\ phase' = [phase EXCEPT ![p] = "constructed"]
          /\ UNCHANGED <<peerEnd, flock>>
       \/ /\ toPeer[p] = <<>>
          /\ ~ownerEnd[p]
          /\ peerEnd' = [peerEnd EXCEPT ![p] = FALSE]
          /\ flock' = Unlock(p)
          /\ phase' = [phase EXCEPT ![p] = "failed"]
          /\ UNCHANGED <<fds, toPeer>>
    /\ UNCHANGED <<state, upgradeCompleteC, stopPc, listening, readyErr,
                   locked, lockedReason, idFile, sessOwner, ownerEnd, toOwner,
                   handlerVars>>

\* upgradeSession.getFiles in a handoff whose files are not followed
\* descriptor by descriptor.
getFiles(p) ==
    /\ getFilesFrames(p)
    /\ UNCHANGED envVars

\* ------------------------------------------------------------ Ready
ErrCannotBecomeReady == "cannot become ready"
ErrHandshake == "ready handshake failed"

\* A faulty Ready: the error of the ready handshake is dropped, and the
\* process goes on to BecomeOwner and transitionTo(Owner).
ReadyFinishIgnoresError(p, err) ==
    /\ phase' = [phase EXCEPT ![p] = "readied"]
    /\ readyErr' = [readyErr EXCEPT ![p] = ErrNil]
    /\ peerEnd' = [peerEnd EXCEPT ![p] = FALSE]
    /\ flock' = Unlock(p)
    /\ idFile' = p
    /\ state' = [state EXCEPT ![p] = transitionTo(@, upgraderStateOwner)]

\* A faulty Ready: the session is not closed when Ready returns, so the
\* socket stays open and the coordinator lock is kept.
ReadyFinishKeepsSession(p, err) ==
    /\ phase' = [phase EXCEPT ![p] = "readied"]
    /\ readyErr' = [readyErr EXCEPT ![p] = err]
    /\ UNCHANGED <<peerEnd, flock>>
    /\ IF err = ErrNil
       THEN /\ idFile' = p
            /\ state' = [state EXCEPT ![p] = transitionTo(@, upgraderStateOwner)]
       ELSE UNCHANGED <<idFile, state>>

\* Upgrader.Ready from the result of the ready handshake on: an error is
\* returned as it is, otherwise the id is written to the owner-id file and
\* the state becomes Owner; the deferred session.Close closes the socket
\* and releases the coordinator lock in both cases.
ReadyFinish(p, err) ==
    /\ phase' = [phase EXCEPT ![p] = "readied"]
    /\ readyErr' = [readyErr EXCEPT ![p] = err]
    /\ peerEnd' = [peerEnd EXCEPT ![p] = FALSE]
    /\ flock' = Unlock(p)
    /\ IF err = ErrNil
       THEN /\ idFile' = p
            /\ state' = [state EXCEPT ![p] = transitionTo(@, upgraderStateOwner)]
       ELSE UNCHANGED <<idFile, state>>

\* upgradeSession.readyHandshake (v1) starts with the byte
\* V1StartReadyHandshake; when the write fails Ready goes on from the error.
readyHandshakeStart(p) ==
    IF Writable(p)
    THEN /\ toOwner' = [toOwner EXCEPT ![p] = Append(@, ByteMsg(V1StartReadyHandshake))]
         /\ phase' = [phase EXCEPT ![p] = "readySentStart"]
         /\ UNCHANGED <<readyErr, state, idFile, flock, peerEnd>>
    ELSE /\ ReadyFinish(p, ErrHandshake)
         /\ UNCHANGED toOwner

\* Upgrader.Ready, from its call to the start of the handshake: rejected
\* when the state cannot move to Owner; without an owner the process
\* becomes owner at once; with an owner the ready handshake starts.
Ready(p) ==
    /\ phase[p] = "constructed"
    /\ IF ~canTransitionTo(state[p], upgraderStateOwner)
       THEN /\ phase' = [phase EXCEPT ![p] = "readied"]
            /\ readyErr' = [readyErr EXCEPT ![p] = ErrCannotBecomeReady]
            /\ UNCHANGED <<state, idFile, flock, peerEnd, toOwner>>
       ELSE IF sessOwner[p] = NoProc
       THEN /\ ReadyFinish(p, ErrNil)
            /\ UNCHANGED toOwner
       ELSE readyHandshakeStart(p)
    /\ UNCHANGED <<upgradeCompleteC, stopPc, listening, storeVars, sessOwner,
                   ownerEnd, toPeer, handlerVars>>
    /\ UNCHANGED envVars

\* upgradeSession.readyHandshake (v1): the VersionInformation frame follows
\* the start byte.
readyHandshakeSendVersion(p) ==
    /\ phase[p] = "readySentStart"
    /\ IF Writable(p)
       THEN /\ toOwner' = [toOwner EXCEPT ![p] = Append(@, VersionInformation(ProtoVersion))]
            /\ phase' = [phase EXCEPT ![p] = "readyAwait"]
            /\ UNCHANGED <<readyErr, state, idFile, flock, peerEnd>>
       ELSE /\ ReadyFinish(p, ErrHandshake)
            /\ UNCHANGED toOwner
    /\ UNCHANGED <<upgradeCompleteC, stopPc, listening, storeVars, sessOwner,
                   ownerEnd, toPeer, handlerVars>>
    /\ UNCHANGED envVars

\* upgradeSession.readyHandshake (v1): the error of reading the owner's
\* acknowledgement, given the frame read (or EOF when the owner's end is
\* closed and nothing is left to read).
readyHandshakeAck(frame) ==
    IF frame = Message(V1MessageSteppingDown) THEN ErrNil ELSE ErrHandshake

\* upgradeSession.readyHandshake (v1) waits for "stepping down", and Ready
\* goes on from its result.
readyHandshakeAwait(p) ==
    /\ phase[p] = "readyAwait"
    /\ \/ /\ toPeer[p] # <<>>
          /\ toPeer' = [toPeer EXCEPT ![p] = Tail(@)]
          /\ ReadyFinish(p, readyHandshakeAck(Head(toPeer[p])))
       \/ /\ toPeer[p] = <<>>
          /\ ~ownerEnd[p]
          /\ UNCHANGED toPeer
          /\ ReadyFinish(p, readyHandshakeAck(EOF))
    /\ UNCHANGED <<upgradeCompleteC, stopPc, listening, storeVars, sessOwner,
                   ownerEnd, toOwner, handlerVars>>
    /\ UNCHANGED envVars

\* coordinator.BecomeOwner returned the error of ioutil.WriteFile.
ErrBecomeOwner == "could not write the owner-id file"

\* Upgrader.Ready when the write of the owner-id file fails, after the
\* handshake if there is an owner: the error is returned, the state stays
\* as it is and the deferred session.Close runs.  WriteFile truncates the
\* file when it opens it, so the file keeps its contents or is left empty.
ReadyWriteFails(p) ==
    /\ \/ /\ phase[p] = "constructed"
          /\ canTransitionTo(state[p], upgraderStateOwner)
          /\ sessOwner[p] = NoProc
          /\ UNCHANGED toPeer
       \/ /\ phase[p] = "readyAwait"
          /\ toPeer[p] # <<>>
          /\ readyHandshakeAck(Head(toPeer[p])) = ErrNil
          /\ toPeer' = [toPeer EXCEPT ![p] = Tail(@)]
    /\ phase' = [phase EXCEPT ![p] = "readied"]
    /\ readyErr' = [readyErr EXCEPT ![p] = ErrBecomeOwner]
    /\ peerEnd' = [peerEnd EXCEPT ![p] = FALSE]
    /\ flock' = Unlock(p)
    /\ idFile' \in {idFile, NoProc}
    /\ UNCHANGED <<state, upgradeCompleteC, stopPc, listening, storeVars,
                   sessOwner, ownerEnd, toOwner, handlerVars>>
    /\ UNCHANGED envVars

\* Upgrader.Ready called on an Upgrader whose Ready has returned before:
\* the same code runs; session.Close has run once (closeOnce), so the
\* socket is closed, the lock is not held, and the deferred Close does
\* nothing.
ReadyAgain(p) ==
    /\ phase[p] = "readied"
    /\ IF ~canTransitionTo(state[p], upgraderStateOwner)
       THEN /\ readyErr' = [readyErr EXCEPT ![p] = ErrCannotBecomeReady]
            /\ UNCHANGED <<phase, state, idFile, flock, peerEnd, toOwner>>
       ELSE IF sessOwner[p] = NoProc
       THEN /\ ReadyFinish(p, ErrNil)
            /\ UNCHANGED toOwner
       ELSE readyHandshakeStart(p)
    /\ UNCHANGED <<upgradeCompleteC, stopPc, listening, storeVars, sessOwner,
                   ownerEnd, toPeer, handlerVars>>
    /\ UNCHANGED envVars

\* ------------------------------------------------------------ panic
\* The positions of a handler that has returned, or was never started.
Returned == {"none", "dropped", "refused", "refusedDraining", "failedStopped",
             "remainedOwner", "completed"}

\* A goroutine of o panics (close of a closed channel): the process dies,
\* the kernel closes its sockets and releases its lock.
Panic(o) ==
    /\ upgradeCompleteC' = [upgradeCompleteC EXCEPT ![o] = "double-close"]
    /\ phase' = [phase EXCEPT ![o] = "crashed"]
    /\ listening' = [listening EXCEPT ![o] = FALSE]
    /\ ownerEnd' = [q \in Procs |-> IF q \in ConnsOf(o) THEN FALSE ELSE ownerEnd[q]]
    /\ peerEnd' = [peerEnd EXCEPT ![o] = FALSE]
    /\ hpc' = [q \in Procs |->
                IF q \in ConnsOf(o) /\ hpc[q] \notin Returned THEN "crashed" ELSE hpc[q]]
    /\ flock' = Unlock(o)

\* ------------------------------------------------------------ Stop
\* Upgrader.Stop: mustTransitionTo(Stopped), then session.Close.  Stop waits
\* for stateLock while Ready runs.
Stop(p) ==
    /\ phase[p] \in {"constructed", "readied"}
    /\ stopPc[p] = "idle"
    /\ Cardinality({r \in Procs : stopPc[r] # "idle"}) < MaxStops
    /\ state' = [state EXCEPT ![p] = transitionTo(@, upgraderStateStopped)]
    /\ peerEnd' = [peerEnd EXCEPT ![p] = FALSE]
    /\ flock' = Unlock(p)
    /\ stopPc' = [stopPc EXCEPT ![p] = "stopOnce"]
    /\ UNCHANGED <<phase, upgradeCompleteC, listening, readyErr, storeVars,
                   idFile, sessOwner, ownerEnd, toPeer, toOwner, handlerVars>>
    /\ UNCHANGED envVars

\* Upgrader.Stop, stopOnce: the store is locked with ErrUpgraderStopped, the
\* upgrade socket is closed (connections not yet accepted are dropped, and
\* the close of a listener made by Listen removes its path) and
\* upgradeCompleteC is tested.
StopOnce(p) ==
    /\ phase[p] # "crashed"
    /\ stopPc[p] = "stopOnce"
    /\ locked' = [locked EXCEPT ![p] = TRUE]
    /\ lockedReason' = [lockedReason EXCEPT ![p] = ErrUpgraderStopped]
    /\ listening' = [listening EXCEPT ![p] = FALSE]
    /\ ownerEnd' = [q \in Procs |->
                      IF q \in ConnsOf(p) /\ hpc[q] = "queued" THEN FALSE ELSE ownerEnd[q]]
    /\ hpc' = [q \in Procs |->
                      IF q \in ConnsOf(p) /\ hpc[q] = "queued" THEN "dropped" ELSE hpc[q]]
    /\ stopPc' = [stopPc EXCEPT ![p] =
                      IF upgradeCompleteC[p] = "open" THEN "close" ELSE "done"]
    /\ UNCHANGED <<phase, state, upgradeCompleteC, readyErr, fds, coordVars,
                   sessOwner, peerEnd, toPeer, toOwner, passedFiles, timedOut>>
    /\ sockFile' = [sockFile EXCEPT ![p] = FALSE]
    /\ UNCHANGED <<ctxDone, watcher, newErr, ownerVersion, wire, codec, fileVars>>

\* Upgrader.Stop, stopOnce: close(upgradeCompleteC) in the default branch of
\* the select.
StopClose(p) ==
    /\ phase[p] # "crashed"
    /\ stopPc[p] = "close"
    /\ stopPc' = [stopPc EXCEPT ![p] = "done"]
    /\ IF upgradeCompleteC[p] = "open"
       THEN /\ upgradeCompleteC' = [upgradeCompleteC EXCEPT ![p] = "closed"]
            /\ UNCHANGED <<phase, listening, ownerEnd, peerEnd, hpc, flock>>
       ELSE Panic(p)
    /\ UNCHANGED <<state, readyErr, storeVars, idFile, sessOwner, toPeer,
                   toOwner, passedFiles, timedOut>>
    /\ UNCHANGED envVars

\* ------------------------------------------------------------ the owner's side
\* The owner of the connection dialed by q.
OwnerOf(q) == sessOwner[q]

\* Upgrader.serveUpgrades: AcceptUnix returns q's connection and the
\* handler goroutine is started.
serveUpgrades(q) ==
    /\ hpc[q] = "queued"
    /\ listening[OwnerOf(q)]
    /\ hpc' = [hpc EXCEPT ![q] = "transitionTo"]
    /\ UNCHANGED <<procVars, storeVars, coordVars, connVars, passedFiles, timedOut>>
    /\ UNCHANGED envVars

\* handleUpgradeRequest: where the handler returns when
\* transitionTo(TransferringOwnership) is refused; the error it logs names
\* the state the Upgrader is in.
Refused(from) ==
    IF from = upgraderStateDraining THEN "refusedDraining" ELSE "refused"

\* handleUpgradeRequest: transitionTo(TransferringOwnership); when it is
\* refused the handler returns and its deferred conn.Close runs.
handleUpgradeRequest(q) ==
    /\ hpc[q] = "transitionTo"
    /\ ~InReady(OwnerOf(q))
    /\ IF canTransitionTo(state[OwnerOf(q)], upgraderStateTransferringOwnership)
       THEN /\ state' = [state EXCEPT ![OwnerOf(q)] = upgraderStateTransferringOwnership]
            /\ hpc' = [hpc EXCEPT ![q] = "lockMutations"]
            /\ UNCHANGED ownerEnd
       ELSE /\ ownerEnd' = [ownerEnd EXCEPT ![q] = FALSE]
            /\ hpc' = [hpc EXCEPT ![q] = Refused(state[OwnerOf(q)])]
            /\ UNCHANGED state
    /\ UNCHANGED <<phase, upgradeCompleteC, stopPc, listening, readyErr,
                   storeVars, coordVars, sessOwner, peerEnd, toPeer, toOwner,
                   passedFiles, timedOut>>
    /\ UNCHANGED envVars

\* handleUpgradeRequest: Fds.lockMutations(ErrUpgradeInProgress)
handlerLockMutations(q) ==
    /\ hpc[q] = "lockMutations"
    /\ locked' = [locked EXCEPT ![OwnerOf(q)] = TRUE]
    /\ lockedReason' = [lockedReason EXCEPT ![OwnerOf(q)] = ErrUpgradeInProgress]
    /\ hpc' = [hpc EXCEPT ![q] = "copy"]
    /\ UNCHANGED <<procVars, fds, coordVars, connVars, passedFiles, timedOut>>
    /\ UNCHANGED envVars

\* Fds.copy: the snapshot of the store
copy(o) == fds[o]

\* handleUpgradeRequest: the timer is created and Fds.copy() is handed to
\* giveFDs, which starts the timeout watcher.
handlerCopy(q) ==
    /\ hpc[q] = "copy"
    /\ passedFiles' = [passedFiles EXCEPT ![q] = copy(OwnerOf(q))]
    /\ hpc' = [hpc EXCEPT ![q] = "giveFDs"]
    /\ UNCHANGED <<procVars, storeVars, coordVars, connVars, timedOut>>
    /\ UNCHANGED envVars

\* A faulty timeout watcher: it logs the timeout and leaves the connection
\* open.
timeoutWatcherKeepsConn(q) ==
    /\ hpc[q] \in {"giveFDs", "awaitReady", "readyHandshake", "steppingDown"}
    /\ timedOut[q] = "no"
    /\ Cardinality({r \in Procs : timedOut[r] # "no"}) < MaxTimeouts
    /\ timedOut' = [timedOut EXCEPT ![q] = hpc[q]]
    /\ UNCHANGED <<procVars, storeVars, coordVars, connVars, hpc, passedFiles>>
    /\ UNCHANGED envVars

\* sibling.giveFDs, the timeout watcher: when readyTimeoutC fires before
\* giveFDs has returned, the connection is closed.
timeoutWatcher(q) ==
    /\ hpc[q] \in {"giveFDs", "awaitReady", "readyHandshake", "steppingDown"}
    /\ timedOut[q] = "no"
    /\ Cardinality({r \in Procs : timedOut[r] # "no"}) < MaxTimeouts
    /\ timedOut' = [timedOut EXCEPT ![q] = hpc[q]]
    /\ ownerEnd' = [ownerEnd EXCEPT ![q] = FALSE]
    /\ UNCHANGED <<procVars, storeVars, coordVars, sessOwner, peerEnd, toPeer,
                   toOwner, hpc, passedFiles>>
    /\ UNCHANGED envVars

\* sibling.giveFDs: the snapshot is ranged over in some order, then the
\* metadata frame and the FDs of the entries that have a file are written;
\* a write on a closed connection fails and giveFDs returns the error.
giveFDs(q) ==
    /\ hpc[q] = "giveFDs"
    /\ IF Writable(q)
       THEN /\ \E order \in Orderings(DOMAIN passedFiles[q]) :
                    toPeer' = [toPeer EXCEPT ![q] =
                        @ \o WireFrames(validFds(order, passedFiles[q]), passedFiles[q])]
            /\ hpc' = [hpc EXCEPT ![q] = "awaitReady"]
       ELSE /\ hpc' = [hpc EXCEPT ![q] = "transitionToOwner"]
            /\ UNCHANGED toPeer
    /\ UNCHANGED <<procVars, storeVars, coordVars, sessOwner, ownerEnd, peerEnd,
                   toOwner, passedFiles, timedOut>>
    /\ UNCHANGED envVars

\* What a read by the owner on q's connection returns now: the next frame,
\* or EOF once an end is closed; the read blocks otherwise.
CanRead(q) == ~ownerEnd[q] \/ toOwner[q] # <<>> \/ ~peerEnd[q]
\* A faulty read: bytes that arrived before the watcher closed the
\* connection are still returned after the close.
ReadFrameAfterClose(q) ==
    IF toOwner[q] # <<>> THEN Head(toOwner[q]) ELSE EOF
ReadFrame(q) ==
    IF ownerEnd[q] /\ toOwner[q] # <<>> THEN Head(toOwner[q]) ELSE EOF
AfterRead(q) ==
    IF ownerEnd[q] /\ toOwner[q] # <<>> THEN Tail(toOwner[q]) ELSE toOwner[q]

\* A faulty awaitReady: only the start byte of the v1 handshake counts as
\* a ready byte.
awaitReadyNextV1Only(frame) ==
    IF frame = ByteMsg(V1StartReadyHandshake) THEN "readyHandshake"
    ELSE "transitionToOwner"

\* sibling.awaitReady: where the handler goes on from the byte read
awaitReadyNext(frame) ==
    IF frame = ByteMsg(V0NotifyReady) THEN "lockCompleted"
    ELSE IF frame = ByteMsg(V1StartReadyHandshake) THEN "readyHandshake"
    \* default case: errors.Wrapf(err, ...) is nil when a byte was read
    ELSE IF frame.type = "byte" THEN "lockCompleted"
    ELSE "transitionToOwner"

\* sibling.awaitReady
awaitReady(q) ==
    /\ hpc[q] = "awaitReady"
    /\ CanRead(q)
    /\ toOwner' = [toOwner EXCEPT ![q] = AfterRead(q)]
    /\ hpc' = [hpc EXCEPT ![q] = awaitReadyNext(ReadFrame(q))]
    /\ UNCHANGED <<procVars, storeVars, coordVars, sessOwner, ownerEnd, peerEnd,
                   toPeer, passedFiles, timedOut>>
    /\ UNCHANGED envVars

\* A faulty version check: the peer's version is compared with the version
\* after this one.
readyHandshakeNextWrongVersion(frame) ==
    IF frame = VersionInformation(ProtoVersion + 1) THEN "steppingDown"
    ELSE "transitionToOwner"

\* sibling.readyHandshake: where the handler goes on from the frame read
readyHandshakeNext(frame) ==
    IF frame = VersionInformation(ProtoVersion) THEN "steppingDown"
    ELSE "transitionToOwner"

\* sibling.readyHandshake: ReadJSONBlob of the peer's VersionInformation
readyHandshake(q) ==
    /\ hpc[q] = "readyHandshake"
    /\ CanRead(q)
    /\ toOwner' = [toOwner EXCEPT ![q] = AfterRead(q)]
    /\ hpc' = [hpc EXCEPT ![q] = readyHandshakeNext(ReadFrame(q))]
    /\ UNCHANGED <<procVars, storeVars, coordVars, sessOwner, ownerEnd, peerEnd,
                   toPeer, passedFiles, timedOut>>
    /\ UNCHANGED envVars

\* A faulty readyHandshake: it returns an error after "stepping down" has
\* been written, so the handler takes the owner back to Owner.
steppingDownReturnsError(q) ==
    /\ hpc[q] = "steppingDown"
    /\ toPeer' = [toPeer EXCEPT ![q] =
                    IF Writable(q) THEN Append(@, Message(V1MessageSteppingDown)) ELSE @]
    /\ hpc' = [hpc EXCEPT ![q] = "transitionToOwner"]
    /\ UNCHANGED <<procVars, storeVars, coordVars, sessOwner, ownerEnd, peerEnd,
                   toOwner, passedFiles, timedOut>>
    /\ UNCHANGED envVars

\* A faulty readyHandshake: the error of the write of "stepping down" is
\* returned, so the handler takes the owner back to Owner.
steppingDownWriteErrorReturned(q) ==
    /\ hpc[q] = "steppingDown"
    /\ toPeer' = [toPeer EXCEPT ![q] =
                    IF Writable(q) THEN Append(@, Message(V1MessageSteppingDown)) ELSE @]
    /\ hpc' = [hpc EXCEPT ![q] =
                    IF Writable(q) THEN "lockCompleted" ELSE "transitionToOwner"]
    /\ UNCHANGED <<procVars, storeVars, coordVars, sessOwner, ownerEnd, peerEnd,
                   toOwner, passedFiles, timedOut>>
    /\ UNCHANGED envVars

\* sibling.readyHandshake: "stepping down" is written; an error of the
\* write is logged and giveFDs returns nil all the same.
steppingDown(q) ==
    /\ hpc[q] = "steppingDown"
    /\ toPeer' = [toPeer EXCEPT ![q] =
                    IF Writable(q) THEN Append(@, Message(V1MessageSteppingDown)) ELSE @]
    /\ hpc' = [hpc EXCEPT ![q] = "lockCompleted"]
    /\ UNCHANGED <<procVars, storeVars, coordVars, sessOwner, ownerEnd, peerEnd,
                   toOwner, passedFiles, timedOut>>
    /\ UNCHANGED envVars

\* A faulty handler: after giveFDs failed it goes on to unlockMutations
\* without the transition back to Owner.
handlerRemainOwnerKeepsState(q) ==
    /\ hpc[q] = "transitionToOwner"
    /\ ~InReady(OwnerOf(q))
    /\ hpc' = [hpc EXCEPT ![q] = "unlockMutations"]
    /\ UNCHANGED <<procVars, storeVars, coordVars, connVars, passedFiles, timedOut>>
    /\ UNCHANGED envVars

\* handleUpgradeRequest after giveFDs failed: transitionTo(Owner); when that
\* is refused (Stop was called) the handler returns.
handlerRemainOwner(q) ==
    /\ hpc[q] = "transitionToOwner"
    /\ ~InReady(OwnerOf(q))
    /\ IF canTransitionTo(state[OwnerOf(q)], upgraderStateOwner)
       THEN /\ state' = [state EXCEPT ![OwnerOf(q)] = upgraderStateOwner]
            /\ hpc' = [hpc EXCEPT ![q] = "unlockMutations"]
            /\ UNCHANGED ownerEnd
       ELSE /\ ownerEnd' = [ownerEnd EXCEPT ![q] = FALSE]
            /\ hpc' = [hpc EXCEPT ![q] = "failedStopped"]
            /\ UNCHANGED state
    /\ UNCHANGED <<phase, upgradeCompleteC, stopPc, listening, readyErr,
                   storeVars, coordVars, sessOwner, peerEnd, toPeer, toOwner,
                   passedFiles, timedOut>>
    /\ UNCHANGED envVars

\* A faulty handler: after giveFDs failed and the owner is Owner again it
\* returns without unlocking the store.
handlerReturnsLocked(q) ==
    /\ hpc[q] = "unlockMutations"
    /\ ownerEnd' = [ownerEnd EXCEPT ![q] = FALSE]
    /\ hpc' = [hpc EXCEPT ![q] = "remainedOwner"]
    /\ UNCHANGED <<procVars, storeVars, coordVars, sessOwner, peerEnd, toPeer,
                   toOwner, passedFiles, timedOut>>
    /\ UNCHANGED envVars

\* handleUpgradeRequest after giveFDs failed: Fds.unlockMutations, return.
handlerUnlockMutations(q) ==
    /\ hpc[q] = "unlockMutations"
    /\ locked' = [locked EXCEPT ![OwnerOf(q)] = FALSE]
    /\ lockedReason' = [lockedReason EXCEPT ![OwnerOf(q)] = ErrNil]
    /\ ownerEnd' = [ownerEnd EXCEPT ![q] = FALSE]
    /\ hpc' = [hpc EXCEPT ![q] = "remainedOwner"]
    /\ UNCHANGED <<procVars, fds, coordVars, sessOwner, peerEnd, toPeer, toOwner,
                   passedFiles, timedOut>>
    /\ UNCHANGED envVars

\* handleUpgradeRequest after giveFDs succeeded:
\* Fds.lockMutations(ErrUpgradeCompleted)
handlerLockCompleted(q) ==
    /\ hpc[q] = "lockCompleted"
    /\ locked' = [locked EXCEPT ![OwnerOf(q)] = TRUE]
    /\ lockedReason' = [lockedReason EXCEPT ![OwnerOf(q)] = ErrUpgradeCompleted]
    /\ hpc' = [hpc EXCEPT ![q] = "transitionToDraining"]
    /\ UNCHANGED <<procVars, fds, coordVars, connVars, passedFiles, timedOut>>
    /\ UNCHANGED envVars

\* handleUpgradeRequest after giveFDs succeeded: transitionTo(Draining),
\* whose error is ignored.
handlerDraining(q) ==
    /\ hpc[q] = "transitionToDraining"
    /\ ~InReady(OwnerOf(q))
    /\ state' = [state EXCEPT ![OwnerOf(q)] = transitionTo(@, upgraderStateDraining)]
    /\ hpc' = [hpc EXCEPT ![q] = "close"]
    /\ UNCHANGED <<phase, upgradeCompleteC, stopPc, listening, readyErr,
                   storeVars, coordVars, connVars, passedFiles, timedOut>>
    /\ UNCHANGED envVars

\* handleUpgradeRequest after giveFDs succeeded: close(upgradeCompleteC),
\* then the deferred conn.Close.  Closing a closed channel panics.
handlerCloseUpgradeComplete(q) ==
    /\ hpc[q] = "close"
    /\ IF upgradeCompleteC[OwnerOf(q)] = "open"
       THEN /\ upgradeCompleteC' = [upgradeCompleteC EXCEPT ![OwnerOf(q)] = "closed"]
            /\ ownerEnd' = [ownerEnd EXCEPT ![q] = FALSE]
            /\ hpc' = [hpc EXCEPT ![q] = "completed"]
            /\ UNCHANGED <<phase, listening, peerEnd, flock>>
       ELSE Panic(OwnerOf(q))
    /\ UNCHANGED <<state, stopPc, readyErr, storeVars, idFile, sessOwner, toPeer,
                   toOwner, passedFiles, timedOut>>
    /\ UNCHANGED envVars

\* ------------------------------------------------------------ specification
Next ==
    \/ \E p \in Procs : NewListen(p)
    \/ \E p \in Procs : connectToCurrentOwner(p)
    \/ \E p \in Procs : getFiles(p)
    \/ \E p \in Procs : Ready(p)
    \/ \E p \in Procs : readyHandshakeSendVersion(p)
    \/ \E p \in Procs : readyHandshakeAwait(p)
    \/ \E p \in Procs : Stop(p)
    \/ \E p \in Procs : StopOnce(p)
    \/ \E p \in Procs : StopClose(p)
    \/ \E p \in Procs, id \in FdIds : Add(p, id)
    \/ \E p \in Procs, id \in FdIds : Remove(p, id)
    \/ \E q \in Procs : serveUpgrades(q)
    \/ \E q \in Procs : handleUpgradeRequest(q)
    \/ \E q \in Procs : handlerLockMutations(q)
    \/ \E q \in Procs : handlerCopy(q)
    \/ \E q \in Procs : timeoutWatcher(q)
    \/ \E q \in Procs : giveFDs(q)
    \/ \E q \in Procs : awaitReady(q)
    \/ \E q \in Procs : readyHandshake(q)
    \/ \E q \in Procs : steppingDown(q)
    \/ \E q \in Procs : handlerRemainOwner(q)
    \/ \E q \in Procs : handlerUnlockMutations(q)
    \/ \E q \in Procs : handlerLockCompleted(q)
    \/ \E q \in Procs : handlerDraining(q)
    \/ \E q \in Procs : handlerCloseUpgradeComplete(q)

Spec == Init /\ [][Next]_vars

TypeOK ==
    /\ state \in [Procs -> {upgraderStateCheckingOwner, upgraderStateOwner,
                            upgraderStateTransferringOwnership,
                            upgraderStateDraining, upgraderStateStopped}]
    /\ idFile \in Procs \cup {NoProc}
    /\ flock \in Procs \cup {NoProc}
    /\ \A p \in Procs : DOMAIN fds[p] \subseteq FdIds

\* ------------------------------------------------------------ ownership
\* The handler of q's connection has had nil from giveFDs (the peer was told
\* "stepping down", or the write of it failed) and has not yet recorded
\* Draining.
SteppedDownNotRecorded(q) == hpc[q] \in {"lockCompleted", "transitionToDraining"}

\* The processes whose state is Owner or TransferringOwnership.
OwnerOrTransferring ==
    {p \in Procs : state[p] \in {upgraderStateOwner, upgraderStateTransferringOwnership}}

\* The processes that hold ownership: Owner, or TransferringOwnership with
\* no handler between the nil of giveFDs and transitionTo(Draining).
HoldsOwnership ==
    {p \in OwnerOrTransferring :
        state[p] = upgraderStateOwner
        \/ \A q \in ConnsOf(p) : ~SteppedDownNotRecorded(q)}

ReadyReturns(p) == readyErr[p] = "none" /\ readyErr'[p] # "none"

\* p, waiting in the ready handshake, reads "stepping down" in this step.
ReceivesSteppingDown(p) ==
    /\ phase[p] = "readyAwait"
    /\ toPeer[p] # <<>>
    /\ Head(toPeer[p]) = Message(V1MessageSteppingDown)
    /\ toPeer'[p] = Tail(toPeer[p])

\* C2: a new process that dialed an owner writes its id to the owner-id file
\* and enters Owner only after it has received "stepping down" from that
\* owner; when the message is not received its Ready returns an error, and it
\* neither writes the owner-id file nor enters Owner.
C2_OwnerOnlyAfterSteppingDown ==
    /\ [](\A p \in Procs :
            sessOwner[p] # NoProc /\ readyErr[p] # ErrNil =>
                /\ idFile # p
                /\ state[p] \in {upgraderStateCheckingOwner, upgraderStateStopped})
    /\ [][\A p \in Procs :
            sessOwner[p] # NoProc /\ ReadyReturns(p) =>
                IF ReceivesSteppingDown(p)
                THEN readyErr'[p] = ErrNil /\ idFile' = p
                     /\ state'[p] = upgraderStateOwner
                ELSE readyErr'[p] # ErrNil /\ idFile' = idFile /\ idFile' # p
                     /\ state'[p] = state[p]]_vars

\* C2 witness: one process took over after "stepping down" (its Ready
\* returned nil and it wrote the owner-id file), and the Ready of another
\* process that dialed an owner has returned a handshake error.
C2_OneTookOverOneFailed ==
    \E p, q \in Procs :
        /\ sessOwner[p] # NoProc /\ readyErr[p] = ErrNil
        /\ hpc[p] \in {"lockCompleted", "transitionToDraining", "close", "completed"}
        /\ sessOwner[q] # NoProc /\ readyErr[q] = ErrHandshake

\* ------------------------------------------------------------ upgrade timeout
\* The handler of q's connection is past a nil of giveFDs: the owner steps down.
SteppingDown(q) ==
    hpc[q] \in {"lockCompleted", "transitionToDraining", "close", "completed"}

\* The timeout watcher closed q's connection before the owner had read the
\* peer's VersionInformation.
TimedOutEarly(q) == timedOut[q] \in {"giveFDs", "awaitReady", "readyHandshake"}

C4_ReadyFailsAfterTimeout ==
    /\ [](\A q \in Procs :
            timedOut[q] # "no" =>
                /\ readyErr[q] # ErrNil
                /\ idFile # q
                /\ state[q] \in {upgraderStateCheckingOwner, upgraderStateStopped})
    /\ [][\A q \in Procs :
            /\ TimedOutEarly(q) /\ hpc[q] \in {"unlockMutations", "remainedOwner"}
            /\ state[q] = upgraderStateCheckingOwner
            /\ ReadyReturns(q)
            => /\ readyErr'[q] = ErrHandshake
               /\ state'[q] = upgraderStateCheckingOwner
               /\ idFile' = OwnerOf(q)]_vars

\* C4 witness: the owner timed out on q's handoff and is Owner again, q's
\* Ready has returned the handshake error, and the owner-id file holds the
\* id of the old owner.
C4_ReadyFailedOwnerKept ==
    \E q \in Procs :
        /\ TimedOutEarly(q)
        /\ hpc[q] = "remainedOwner"
        /\ state[OwnerOf(q)] = upgraderStateOwner
        /\ readyErr[q] = ErrHandshake
        /\ state[q] = upgraderStateCheckingOwner
        /\ idFile = OwnerOf(q)

\* ------------------------------------------------------------ zero owners
\* The v1 handshake of n was left incomplete after its owner stepped down:
\* the owner's giveFDs returned nil, and n's Ready returned the handshake
\* error without n becoming owner.
ZeroOwnersAfter(n) ==
    /\ sessOwner[n] # NoProc
    /\ SteppingDown(n)
    /\ readyErr[n] = ErrHandshake

\* New of p fails in this step.
NewFails(p) == phase[p] # "failed" /\ phase'[p] = "failed"

\* C5: once the handshake of N has been left incomplete after the old owner
\* O stepped down (zero owners), a process that is launched afterwards on
\* the same directory succeeds in New: its New does not fail on a refusal by
\* the Draining O.  (N holds the coordination lock until its Ready returns,
\* so a process whose New fails in such a state read the owner-id file
\* after N's Ready had returned, and O was Draining when it refused.)
C5_LaunchAfterZeroOwnersSucceeds ==
    [][\A n, p \in Procs :
        /\ n # p /\ ZeroOwnersAfter(n)
        /\ sessOwner[p] = OwnerOf(n) /\ hpc[p] = "refusedDraining"
        => ~NewFails(p)]_vars

\* C5 witness: N's Ready returned an error after the old owner stepped down,
\* no process is owner, and the owner-id file still names the old owner.
C5_ZeroOwners ==
    \E n \in Procs :
        /\ ZeroOwnersAfter(n)
        /\ idFile = OwnerOf(n)
        /\ state[n] = upgraderStateCheckingOwner
        /\ \A r \in Procs : state[r] # upgraderStateOwner

\* ------------------------------------------------------------ UpgradeComplete
\* C6: in every interleaving of Stop with the handling of upgrade requests
\* upgradeCompleteC is closed at most once: no goroutine closes the channel
\* when it is already closed.
C6_UpgradeCompleteClosedOnce ==
    \A p \in Procs : upgradeCompleteC[p] # "double-close"

\* C6 witness: Stop has closed upgradeCompleteC of a process whose handler
\* has had nil from giveFDs and has yet to reach its own close.
C6_StopClosedDuringHandoff ==
    \E q \in Procs :
        /\ sessOwner[q] # NoProc
        /\ hpc[q] \in {"lockCompleted", "transitionToDraining", "close"}
        /\ upgradeCompleteC[OwnerOf(q)] = "closed"
        /\ stopPc[OwnerOf(q)] = "done"

\* ------------------------------------------------------------ one handoff at a time
\* The handler of q's connection has won the transition to
\* TransferringOwnership and has not yet left that state.
Serving(q) ==
    hpc[q] \in {"lockMutations", "copy", "giveFDs", "awaitReady", "readyHandshake",
                "steppingDown", "transitionToOwner", "lockCompleted",
                "transitionToDraining"}

\* The handler of q's connection was refused the transition.
WasRefused(q) == hpc[q] \in {"refused", "refusedDraining"}

\* C7: a process serves at most one handoff at a time: of the handlers of
\* one process at most one has won the transition to TransferringOwnership
\* and not left it; a handler that runs while another one serves is refused;
\* a refused connection is closed with no metadata or FDs sent, and the
\* refused requester's New fails without it becoming owner.
C7_OneHandoffAtATime ==
    /\ [](\A o \in Procs : Cardinality({q \in ConnsOf(o) : Serving(q)}) <= 1)
    /\ [](\A q \in Procs :
            WasRefused(q) =>
                /\ ~ownerEnd[q] /\ toPeer[q] = <<>> /\ fds[q] = EmptyFds
                /\ phase[q] \in {"getFiles", "failed"}
                /\ readyErr[q] = "none"
                /\ state[q] = upgraderStateCheckingOwner
                /\ idFile # q)
    /\ [][\A q, r \in Procs :
            /\ q # r /\ OwnerOf(q) = OwnerOf(r) /\ Serving(r)
            /\ hpc[q] = "transitionTo" /\ hpc'[q] # hpc[q]
            => ~Serving(q)' /\ toPeer'[q] = <<>> /\ ~ownerEnd'[q]]_vars

\* C7 witness: two connections to one owner, one handler serving the
\* handoff, the other refused with nothing sent, and the refused requester's
\* New has failed.
C7_OneServingOneRefused ==
    \E q, r \in Procs :
        /\ q # r /\ sessOwner[q] # NoProc /\ OwnerOf(q) = OwnerOf(r)
        /\ Serving(r)
        /\ WasRefused(q)
        /\ phase[q] = "failed"

\* ------------------------------------------------------------ handoff without failures
\* The steps of New, Ready and of the handlers when no timeout fires, Stop
\* is not called and no read or write fails.
HandoffStep ==
    \/ \E p \in Procs : NewListen(p)
    \/ \E p \in Procs : connectToCurrentOwner(p)
    \/ \E p \in Procs : getFiles(p)
    \/ \E p \in Procs : Ready(p)
    \/ \E p \in Procs : readyHandshakeSendVersion(p)
    \/ \E p \in Procs : readyHandshakeAwait(p)
    \/ \E q \in Procs : serveUpgrades(q)
    \/ \E q \in Procs : handleUpgradeRequest(q)
    \/ \E q \in Procs : handlerLockMutations(q)
    \/ \E q \in Procs : handlerCopy(q)
    \/ \E q \in Procs : giveFDs(q)
    \/ \E q \in Procs : awaitReady(q)
    \/ \E q \in Procs : readyHandshake(q)
    \/ \E q \in Procs : steppingDown(q)
    \/ \E q \in Procs : handlerLockCompleted(q)
    \/ \E q \in Procs : handlerDraining(q)
    \/ \E q \in Procs : handlerCloseUpgradeComplete(q)

\* The application's use of the FD store.
StoreStep ==
    \/ \E p \in Procs, id \in FdIds : Add(p, id)
    \/ \E p \in Procs, id \in FdIds : Remove(p, id)

NextHandoff == HandoffStep \/ StoreStep

\* Every process is launched and calls Ready, and goroutines that can run
\* are scheduled: the steps of the handoff do not stop while one is possible.
SpecHandoff == Init /\ [][NextHandoff]_vars /\ WF_vars(HandoffStep)

\* New has returned to n with the files of an owner, and n has not yet
\* called Ready.
ConstructedFromOwner(n) == phase[n] = "constructed" /\ sessOwner[n] # NoProc

\* n took over: it is Owner and the owner-id file holds its id, or it has
\* since begun (or finished) to hand over to a successor of its own.
TookOver(n) ==
    /\ readyErr[n] = ErrNil
    /\ \/ state[n] = upgraderStateOwner /\ idFile = n
       \/ /\ state[n] \in {upgraderStateTransferringOwnership, upgraderStateDraining}
          /\ \E m \in Procs : sessOwner[m] = n

\* C8, as the specification states it: if P1 is Owner, P2 is constructed on
\* the same directory and calls Ready, and no timeout, Stop or I/O failure
\* occurs, then eventually P1 is Draining with UpgradeComplete closed, P2 is
\* Owner and the owner-id file holds P2's id.
C8_HandoffCompletesAtOnce ==
    \A n \in Procs :
        ConstructedFromOwner(n) ~>
            /\ sessOwner[n] # NoProc
            /\ state[OwnerOf(n)] = upgraderStateDraining
            /\ upgradeCompleteC[OwnerOf(n)] = "closed"
            /\ state[n] = upgraderStateOwner
            /\ idFile = n

\* C8, amended: if P1 is Owner, P2 is constructed on the same directory and
\* calls Ready, and no timeout, Stop or I/O failure occurs, then P2 becomes
\* Owner with its id in the owner-id file, and eventually P1 is Draining
\* with UpgradeComplete closed, by when P2 is still Owner or has begun to
\* hand over to a successor of its own; along a chain of successive
\* processes the UpgradeComplete of every predecessor is closed.
C8_HandoffCompletes ==
    \A n \in Procs :
        ConstructedFromOwner(n) ~>
            /\ sessOwner[n] # NoProc
            /\ state[OwnerOf(n)] = upgraderStateDraining
            /\ upgradeCompleteC[OwnerOf(n)] = "closed"
            /\ TookOver(n)

\* C8 witness: a chain of two handoffs has gone through: both predecessors
\* are Draining with UpgradeComplete closed, and the last process is Owner
\* with its id in the owner-id file.
C8_ChainDone ==
    \E n, m \in Procs :
        /\ sessOwner[n] # NoProc /\ sessOwner[m] = n
        /\ state[OwnerOf(n)] = upgraderStateDraining
        /\ upgradeCompleteC[OwnerOf(n)] = "closed"
        /\ state[n] = upgraderStateDraining
        /\ upgradeCompleteC[n] = "closed"
        /\ state[m] = upgraderStateOwner /\ idFile = m

\* ------------------------------------------------------------ handoff after a timeout
\* The upgrade timer fires while the peer, constructed, has not called Ready.
TimeoutBeforeReady(q) == phase[q] = "constructed" /\ timeoutWatcher(q)

\* The application stops a peer whose handoff has timed out.
StopFailedPeer(p) == timedOut[p] # "no" /\ Stop(p)

\* The steps that go on by themselves: those of the handoff, of a handler
\* after a failed giveFDs, and of a Stop that has begun.
RetryStep ==
    \/ HandoffStep
    \/ \E p \in Procs : StopOnce(p)
    \/ \E p \in Procs : StopClose(p)
    \/ \E q \in Procs : handlerRemainOwner(q)
    \/ \E q \in Procs : handlerUnlockMutations(q)

NextRetry ==
    \/ RetryStep
    \/ \E p \in Procs, id \in FdIds : Add(p, id)
    \/ \E q \in Procs : TimeoutBeforeReady(q)
    \/ \E p \in Procs : StopFailedPeer(p)

\* Handoffs may time out before the peer calls Ready, and such a peer may
\* be stopped; everything else goes on while it can.
SpecRetry == Init /\ [][NextRetry]_vars /\ WF_vars(RetryStep)

\* The owner has the upgrade request of m and no other request unfinished,
\* after the handoff to some q failed because q had not called Ready before
\* the timeout, the owner's handler returned, and q was stopped.
LaterRequestAfterTimeout(m) ==
    /\ phase[m] = "getFiles" /\ hpc[m] = "queued"
    /\ \A r \in ConnsOf(OwnerOf(m)) \ {m} : hpc[r] \in Returned
    /\ \E q \in ConnsOf(OwnerOf(m)) \ {m} :
            /\ timedOut[q] = "awaitReady" /\ readyErr[q] = "none"
            /\ hpc[q] = "remainedOwner"
            /\ state[q] = upgraderStateStopped

\* New has returned to m with the catalog of the owner it dialed.
Inherited(m) ==
    /\ phase[m] = "constructed"
    /\ sessOwner[m] # NoProc
    /\ fds[m] = fds[OwnerOf(m)]

\* m took over from the owner it dialed, whose UpgradeComplete is closed.
HandoffDone(m) ==
    /\ sessOwner[m] # NoProc
    /\ TookOver(m)
    /\ state[OwnerOf(m)] = upgraderStateDraining
    /\ upgradeCompleteC[OwnerOf(m)] = "closed"

\* C9: after a handoff attempt that failed because the peer never called
\* Ready before the timeout, and once that peer has stopped, the owner serves
\* a later upgrade request of a third process successfully (unless the
\* timeout fires on that one as well): the third process inherits the FDs
\* and becomes Owner, and the old owner's UpgradeComplete closes.
C9_LaterRequestServed ==
    \A m \in Procs :
        /\ LaterRequestAfterTimeout(m) ~> (Inherited(m) \/ timedOut[m] # "no")
        /\ LaterRequestAfterTimeout(m) ~> (HandoffDone(m) \/ timedOut[m] # "no")

\* C9 witness: the handoff to q timed out before q called Ready and q was
\* stopped; the third process m holds a file the old owner opened, is Owner,
\* and the old owner is Draining with UpgradeComplete closed.
C9_ThirdProcessTookOver ==
    \E q, m \in Procs :
        /\ q # m
        /\ timedOut[q] = "awaitReady" /\ readyErr[q] = "none"
        /\ hpc[q] = "remainedOwner"
        /\ state[q] = upgraderStateStopped
        /\ sessOwner[m] = OwnerOf(q)
        /\ \E id \in DOMAIN fds[m] : fds[m][id] = OwnerOf(m)
        /\ state[m] = upgraderStateOwner /\ idFile = m
        /\ state[OwnerOf(m)] = upgraderStateDraining
        /\ upgradeCompleteC[OwnerOf(m)] = "closed"

\* ------------------------------------------------------------ mutations during a handoff
\* C10: for adds and removes of the FD store that run concurrently with a
\* handoff on the old owner: every add that returned success and was not
\* followed by a successful remove is in the catalog the new owner inherits
\* (every id in the old owner's store is in the snapshot its handler gave to
\* the process that took over), and while a handoff is in progress or has
\* completed, and Stop has not been called, a mutation that the locked store
\* rejects is rejected with ErrUpgradeInProgress or ErrUpgradeCompleted.
C10_SuccessfulAddsInherited ==
    /\ \A n \in Procs :
            sessOwner[n] # NoProc /\ readyErr[n] = ErrNil =>
                DOMAIN fds[OwnerOf(n)] \subseteq DOMAIN passedFiles[n]
    /\ \A q \in Procs :
            /\ hpc[q] \in {"copy", "giveFDs", "awaitReady", "readyHandshake",
                           "steppingDown", "transitionToDraining", "close", "completed"}
            /\ stopPc[OwnerOf(q)] = "idle"
            /\ locked[OwnerOf(q)]
            => \A id \in FdIds :
                    /\ AddResult(OwnerOf(q), id) \in
                            {ErrNil, ErrUpgradeInProgress, ErrUpgradeCompleted}
                    /\ RemoveResult(OwnerOf(q), id) \in
                            {ErrNil, ErrNoElement, ErrUpgradeInProgress, ErrUpgradeCompleted}

\* C10 witness: a handoff has gone through whose snapshot holds a file the
\* old owner added, and the old owner's store is locked with
\* ErrUpgradeCompleted.
C10_AddInherited ==
    \E n \in Procs :
        /\ sessOwner[n] # NoProc /\ readyErr[n] = ErrNil
        /\ hpc[n] = "completed"
        /\ \E id \in DOMAIN passedFiles[n] : passedFiles[n][id] = OwnerOf(n)
        /\ locked[OwnerOf(n)] /\ lockedReason[OwnerOf(n)] = ErrUpgradeCompleted

\* ------------------------------------------------------------ transfer of a store
\* The ids of the store that is handed over.
StoreIds == 1..NumStoreIds

\* The stores a process may hold: every entry has the file of the process
\* that opened it, or no file.
Stores == UNION {[D -> Procs \cup {NoFile}] : D \in SUBSET StoreIds}

\* Process 1 is Owner with some store, and the request of process 2, which
\* holds the coordination lock, has just won the transition to
\* TransferringOwnership and locked the store.
InitTransfer ==
    /\ phase = [p \in Procs |-> IF p = 1 THEN "readied"
                                ELSE IF p = 2 THEN "getFiles" ELSE "unstarted"]
    /\ state = [p \in Procs |-> IF p = 1 THEN upgraderStateTransferringOwnership
                                ELSE upgraderStateCheckingOwner]
    /\ upgradeCompleteC = [p \in Procs |-> "open"]
    /\ stopPc = [p \in Procs |-> "idle"]
    /\ listening = [p \in Procs |-> p \in {1, 2}]
    /\ \E store \in Stores : fds = [p \in Procs |-> IF p = 1 THEN store ELSE EmptyFds]
    /\ locked = [p \in Procs |-> p = 1]
    /\ lockedReason = [p \in Procs |-> IF p = 1 THEN ErrUpgradeInProgress ELSE ErrNil]
    /\ idFile = 1
    /\ flock = 2
    /\ sessOwner = [p \in Procs |-> IF p = 2 THEN 1 ELSE NoProc]
    /\ ownerEnd = [p \in Procs |-> p = 2]
    /\ peerEnd = [p \in Procs |-> p = 2]
    /\ toPeer = [p \in Procs |-> <<>>]
    /\ toOwner = [p \in Procs |-> <<>>]
    /\ hpc = [p \in Procs |-> IF p = 2 THEN "copy" ELSE "none"]
    /\ passedFiles = [p \in Procs |-> EmptyFds]
    /\ timedOut = [p \in Procs |-> "no"]
    /\ readyErr = [p \in Procs |-> IF p = 1 THEN ErrNil ELSE "none"]
    /\ InitEnv

\* The steps from the snapshot of the store to the store of the receiver.
NextTransfer ==
    \/ \E q \in Procs : handlerCopy(q)
    \/ \E q \in Procs : giveFDs(q)
    \/ \E p \in Procs : getFiles(p)

SpecTransfer == InitTransfer /\ [][NextTransfer]_vars

\* The ids of the entries of a store that have a file.
WithFile(files) == {id \in DOMAIN files : HasFile(files, id)}

\* The frames of giveFDs are on q's connection and q has not read them.
FramesWritten(q) ==
    hpc[q] = "awaitReady" /\ phase[q] = "getFiles" /\ toPeer[q] # <<>>

\* getFiles has returned the files of an owner to q.
FilesReceived(q) == phase[q] = "constructed" /\ sessOwner[q] # NoProc

\* C11: in a handoff the metadata frame is written before any FD; one FD is
\* sent per metadata entry, in the order of the metadata, and the entries
\* without a file are in neither; the receiver pairs the i-th FD with the
\* i-th entry, so that its store maps every id of the sender's snapshot
\* that has a file to the file the sender held under that id, and holds
\* nothing else.
C11_FdsPairedInMetadataOrder ==
    \A q \in Procs :
        /\ FramesWritten(q) =>
              LET meta == Head(toPeer[q]).files
              IN /\ Head(toPeer[q]).type = "meta"
                 /\ Len(toPeer[q]) = Len(meta) + 1
                 /\ {meta[i] : i \in DOMAIN meta} = WithFile(passedFiles[q])
                 /\ Len(meta) = Cardinality(WithFile(passedFiles[q]))
                 /\ \A i \in DOMAIN meta :
                        toPeer[q][i + 1] = FdMsg(passedFiles[q][meta[i]])
        /\ FilesReceived(q) =>
              /\ DOMAIN fds[q] = WithFile(passedFiles[q])
              /\ \A id \in DOMAIN fds[q] : fds[q][id] = passedFiles[q][id]

\* C11 witness: a receiver holds a store inherited from a snapshot of three
\* entries, two with different files and one without a file.
C11_StoreReceived ==
    \E q \in Procs :
        /\ FilesReceived(q)
        /\ Cardinality(DOMAIN passedFiles[q]) = 3
        /\ Cardinality(DOMAIN fds[q]) = 2
        /\ \E a, b \in DOMAIN fds[q] : fds[q][a] # fds[q][b]

\* ------------------------------------------------------------ locked store
\* The reasons lockMutations is called with.
LockReasons == {ErrUpgradeInProgress, ErrUpgradeCompleted, ErrUpgraderStopped}

\* C12: while the store of a process is locked, whatever the reason, an add
\* (Listen, ListenWith, DialWith, OpenFileWith) with an id that is not in
\* the store returns the current lock reason and no entry appears in the
\* store, whereas a lookup of an id in the store returns its file and an add
\* with an id in the store succeeds.
C12_LockedStoreRejectsNewIds ==
    /\ [](\A p \in Procs : locked[p] =>
            /\ lockedReason[p] \in LockReasons
            /\ \A id \in FdIds :
                  IF id \in DOMAIN fds[p]
                  THEN /\ LookupResult(p, id) = fds[p][id]
                       /\ AddResult(p, id) = ErrNil
                  ELSE /\ LookupResult(p, id) = NoFile
                       /\ AddResult(p, id) = lockedReason[p])
    /\ [][\A p \in Procs : locked[p] =>
            /\ DOMAIN fds'[p] \subseteq DOMAIN fds[p]
            /\ \A id \in DOMAIN fds'[p] : fds'[p][id] = fds[p][id]]_vars

\* C12 witness: of two processes that run with a locked store, one has the
\* id in its store and the other has not.
C12_LockedWithAndWithoutId ==
    \E p, r \in Procs, id \in FdIds :
        /\ phase[p] = "readied" /\ locked[p] /\ id \in DOMAIN fds[p]
        /\ phase[r] = "readied" /\ locked[r] /\ id \notin DOMAIN fds[r]

\* ------------------------------------------------------------ lock during a handoff
\* The handler of q's connection has locked the store with
\* ErrUpgradeInProgress and giveFDs has not returned to it.
LockedForHandoff(q) ==
    hpc[q] \in {"copy", "giveFDs", "awaitReady", "readyHandshake", "steppingDown"}

\* C13: in every state in which the upgrader state of a process is
\* TransferringOwnership, the mutators of its store (an add of a new id, and
\* Remove) are rejected with ErrUpgradeInProgress.  Stated for the states in
\* which the handler that entered TransferringOwnership has already called
\* lockMutations(ErrUpgradeInProgress) and giveFDs has not returned.
C13_MutatorsRejectedWhileTransferring ==
    \A p \in Procs :
        /\ state[p] = upgraderStateTransferringOwnership
        /\ \E q \in ConnsOf(p) : LockedForHandoff(q)
        => \A id \in FdIds :
              /\ id \notin DOMAIN fds[p] => AddResult(p, id) = ErrUpgradeInProgress
              /\ RemoveResult(p, id) = ErrUpgradeInProgress

\* C13 witness: a process in TransferringOwnership whose handler waits for
\* the peer's ready with the store locked by ErrUpgradeInProgress.
C13_LockedWhileTransferring ==
    \E p \in Procs, q \in Procs :
        /\ sessOwner[q] = p /\ hpc[q] = "awaitReady"
        /\ state[p] = upgraderStateTransferringOwnership
        /\ locked[p] /\ lockedReason[p] = ErrUpgradeInProgress

\* ------------------------------------------------------------ Remove after the handoff
\* Stop has returned on p, and p has not panicked.
Stopped(p) == stopPc[p] = "done" /\ phase[p] # "crashed"

HandlerRunning(p) ==
    \E q \in ConnsOf(p) : hpc[q] \notin Returned \cup {"queued", "crashed"}

\* C15: once Stop has returned, the FD store stays locked: no add of a new
\* id succeeds again, whatever an upgrade handler that finishes
\* concurrently does.
C15_NoAddAfterStop ==
    \A p \in Procs :
        Stopped(p) =>
            /\ locked[p]
            /\ \A id \in FdIds : id \notin DOMAIN fds[p] => AddResult(p, id) # ErrNil

\* C15 witness: Stop has returned on a process while one of its handlers is
\* still running, and the store is locked with ErrUpgraderStopped.
C15_StoppedWhileHandlerRuns ==
    \E p \in Procs :
        /\ Stopped(p)
        /\ HandlerRunning(p)
        /\ locked[p] /\ lockedReason[p] = ErrUpgraderStopped

\* ------------------------------------------------------------ after a failed handoff
\* The handler of q's connection takes a step from the position pos, and
\* Stop has not been called on its process.
HandlerStepsFrom(q, pos) ==
    /\ sessOwner[q] # NoProc
    /\ hpc[q] = pos /\ hpc'[q] # pos
    /\ stopPc[OwnerOf(q)] = "idle"

\* The handler of q's connection leaves UpgradeComplete of its process as
\* it is in this step, and open unless another handoff of the process has
\* been completed meanwhile.
LeavesUpgradeCompleteOpen(q) ==
    /\ upgradeCompleteC'[OwnerOf(q)] = upgradeCompleteC[OwnerOf(q)]
    /\ \/ upgradeCompleteC'[OwnerOf(q)] = "open"
       \/ \E r \in ConnsOf(OwnerOf(q)) \ {q} : hpc[r] = "completed"

\* C16: when giveFDs has failed and Stop has not been called, the handler
\* takes the owner back to the state Owner and then unlocks the mutations of
\* the FD store, so that adds of new ids and removes of stored ids succeed
\* again; the handler does not close UpgradeComplete.
C16_FailedHandoffRestoresOwner ==
    [][\A q \in Procs :
        /\ HandlerStepsFrom(q, "transitionToOwner") =>
              /\ hpc'[q] = "unlockMutations"
              /\ state'[OwnerOf(q)] = upgraderStateOwner
              /\ LeavesUpgradeCompleteOpen(q)
        /\ HandlerStepsFrom(q, "unlockMutations") =>
              /\ hpc'[q] = "remainedOwner"
              /\ ~locked'[OwnerOf(q)]
              /\ lockedReason'[OwnerOf(q)] = ErrNil
              /\ LeavesUpgradeCompleteOpen(q)
              /\ \A id \in FdIds :
                    IF id \in DOMAIN fds'[OwnerOf(q)]
                    THEN RemoveResult(OwnerOf(q), id)' = ErrNil
                    ELSE AddResult(OwnerOf(q), id)' = ErrNil]_vars

\* C16 witness: after a failed handoff the owner is Owner again with
\* UpgradeComplete open, and holds an entry that was added after the
\* snapshot of that handoff was taken.
C16_AddAfterFailedHandoff ==
    \E q \in Procs, id \in FdIds :
        /\ sessOwner[q] # NoProc
        /\ hpc[q] = "remainedOwner"
        /\ stopPc[OwnerOf(q)] = "idle"
        /\ state[OwnerOf(q)] = upgraderStateOwner
        /\ ~locked[OwnerOf(q)]
        /\ upgradeCompleteC[OwnerOf(q)] = "open"
        /\ id \in DOMAIN fds[OwnerOf(q)]
        /\ id \notin DOMAIN passedFiles[q]

\* ------------------------------------------------------------ transition table
\* The transitions of the table, as pairs.
TableTransitions ==
    {<<upgraderStateCheckingOwner, upgraderStateOwner>>,
     <<upgraderStateCheckingOwner, upgraderStateStopped>>,
     <<upgraderStateOwner, upgraderStateTransferringOwnership>>,
     <<upgraderStateOwner, upgraderStateStopped>>,
     <<upgraderStateTransferringOwnership, upgraderStateOwner>>,
     <<upgraderStateTransferringOwnership, upgraderStateDraining>>,
     <<upgraderStateTransferringOwnership, upgraderStateStopped>>,
     <<upgraderStateDraining, upgraderStateDraining>>,
     <<upgraderStateDraining, upgraderStateStopped>>,
     <<upgraderStateStopped, upgraderStateStopped>>}

\* The handler of q's connection, or Ready of q, is refused a transition in
\* this step.
TransitionRejected(q) ==
    \/ hpc[q] = "transitionTo" /\ hpc'[q] \in {"refused", "refusedDraining"}
    \/ hpc[q] = "transitionToOwner" /\ hpc'[q] = "failedStopped"
    \/ /\ hpc[q] = "transitionToDraining" /\ hpc'[q] = "close"
       /\ <<state[OwnerOf(q)], upgraderStateDraining>> \notin TableTransitions
    \/ readyErr[q] = "none" /\ readyErr'[q] = ErrCannotBecomeReady

\* C17: every change of the state of an upgrader is one of the transitions
\* of the table, and a step in which a transition is rejected leaves the
\* state of every upgrader as it is.
C17_StateFollowsTable ==
    [][/\ \A p \in Procs :
            state'[p] # state[p] => <<state[p], state'[p]>> \in TableTransitions
       /\ \A q \in Procs : TransitionRejected(q) => state' = state]_vars

\* C17 witness: a handler was refused TransferringOwnership, and another
\* handler of a stopped process was refused Draining after its handoff.
C17_TransitionsRejected ==
    \E q, r \in Procs :
        /\ hpc[q] \in {"refused", "refusedDraining"}
        /\ sessOwner[r] # NoProc
        /\ hpc[r] = "close"
        /\ state[OwnerOf(r)] = upgraderStateStopped

\* ------------------------------------------------------------ calls of Ready
\* The handoff with Stop, with a failing write of the owner-id file and with
\* Ready called again after it has returned; no upgrade timer fires and the
\* FD store is not used.
NextCalls ==
    \/ RetryStep
    \/ \E p \in Procs : Stop(p)
    \/ \E p \in Procs : ReadyWriteFails(p)
    \/ \E p \in Procs : ReadyAgain(p)

SpecCalls == Init /\ [][NextCalls]_vars

\* Ready of p returns in this step, from a call made in one of the states.
ReadyReturnsIn(p, states) ==
    /\ phase[p] \in {"constructed", "readied"}
    /\ state[p] \in states
    /\ readyErr'[p] # readyErr[p]

\* C18: Ready called when the table does not allow a move to Owner (the
\* upgrader is Owner, Draining or Stopped) returns an error value and does
\* not panic, leaves the state of the upgrader as it is and does not write
\* the owner-id file.
C18_ReadyRejectedWithoutEffect ==
    [][\A p \in Procs :
        ReadyReturnsIn(p, {upgraderStateOwner, upgraderStateDraining,
                           upgraderStateStopped})
        => /\ readyErr'[p] = ErrCannotBecomeReady
           /\ state' = state
           /\ idFile' = idFile
           /\ flock' = flock
           /\ phase'[p] = "readied"]_vars

\* C18 witness: Ready has been refused on a Draining upgrader and on its
\* successor, which is Owner.
C18_RefusedOwnerAndDraining ==
    \E p, n \in Procs :
        /\ sessOwner[n] = p
        /\ state[p] = upgraderStateDraining /\ readyErr[p] = ErrCannotBecomeReady
        /\ state[n] = upgraderStateOwner /\ readyErr[n] = ErrCannotBecomeReady
        /\ idFile = n

\* C19: every change of the owner-id file to the id of a process is made
\* while that process holds the coordinator lock.
C19_IdFileWrittenUnderLock ==
    [][\A p \in Procs : idFile' = p /\ idFile # p => flock = p]_vars

\* C19 witness: the successor has written the owner-id file under the lock
\* and is Owner, while the handler of the first process, whose Ready has
\* returned, has not left TransferringOwnership yet.
C19_SuccessorWroteDuringTransfer ==
    \E p, n \in Procs :
        /\ sessOwner[n] = p /\ sessOwner[p] = NoProc
        /\ idFile = n /\ state[n] = upgraderStateOwner
        /\ phase[p] = "readied" /\ state[p] = upgraderStateTransferringOwnership

\* The values Ready returns after it has gone past its check of the state.
ReadyOutcomes == {ErrNil, ErrHandshake, ErrBecomeOwner}

\* A first call of Ready by p returns in this step with one of the outcomes.
ReadyReturnsWith(p, errs) ==
    /\ readyErr[p] = "none"
    /\ readyErr'[p] \in errs

\* C20: when Ready returns with success, with an error of the handshake or
\* with an error of the write of the owner-id file, the process does not
\* hold the coordinator lock, its session socket is closed and the lock is
\* free for another process; the process does not get the lock back later.
C20_ReadyReleasesLockAndSocket ==
    /\ [][\A p \in Procs :
            ReadyReturnsWith(p, ReadyOutcomes)
            => /\ flock = p
               /\ flock' = NoProc
               /\ ~peerEnd'[p]]_vars
    /\ [](\A p \in Procs :
            readyErr[p] \in ReadyOutcomes => flock # p /\ ~peerEnd[p])

\* C20 witness: Ready of one process has returned the error of the write,
\* Ready of another has succeeded, and a third process has acquired the
\* lock after them.
C20_LockTakenAfterReturns ==
    \E p, q, n \in Procs :
        /\ readyErr[p] = ErrBecomeOwner
        /\ readyErr[q] = ErrNil
        /\ readyErr[n] = "none"
        /\ flock = n

\* ------------------------------------------------------------ between New and Ready
\* New has returned the Upgrader of p, and neither Ready nor Stop has been
\* called on it.
AwaitingReady(p) == phase[p] = "constructed" /\ stopPc[p] = "idle"

\* Ready of p returns nil in this step.
ReadyReturnsNil(p) ==
    /\ phase[p] \in {"constructed", "readyAwait"}
    /\ phase'[p] = "readied"
    /\ readyErr'[p] = ErrNil

ErrContext == "context canceled"
ErrGetFiles == "protocol error"

\* The context given to New ends (cancel, or its deadline passes), at any
\* time after the process was launched.
Cancel(p) ==
    /\ phase[p] \notin {"unstarted", "crashed"}
    /\ ~ctxDone[p]
    /\ ctxDone' = [ctxDone EXCEPT ![p] = TRUE]
    /\ UNCHANGED <<procVars, storeVars, coordVars, connVars, handlerVars,
                   watcher, newErr, sockFile, ownerVersion, wire, codec, fileVars>>

\* coordinator.Lock, one turn of its loop: the loop is left when the context
\* has ended or when TryExclusiveLock got the lock; while another process
\* holds the lock the turn sleeps and the next one starts.
Lock(p) ==
    /\ phase[p] = "locking"
    /\ \/ /\ ctxDone[p]
          /\ UNCHANGED flock
       \/ /\ ~ctxDone[p]
          /\ flock = NoProc
          /\ flock' = p
    /\ phase' = [phase EXCEPT ![p] = "lockReturn"]
    /\ UNCHANGED <<state, upgradeCompleteC, stopPc, listening, readyErr,
                   storeVars, idFile, connVars, handlerVars, envVars>>

\* coordinator.Lock after its loop: c.lock = flock; return ctx.Err().  On an
\* error connectToCurrentOwner returns it, no session exists, and New
\* returns the error.
LockReturn(p) ==
    /\ phase[p] = "lockReturn"
    /\ IF ctxDone[p]
       THEN /\ phase' = [phase EXCEPT ![p] = "failed"]
            /\ newErr' = [newErr EXCEPT ![p] = ErrContext]
       ELSE /\ phase' = [phase EXCEPT ![p] = "connect"]
            /\ UNCHANGED newErr
    /\ UNCHANGED <<state, upgradeCompleteC, stopPc, listening, readyErr,
                   storeVars, coordVars, connVars, handlerVars, ctxDone,
                   watcher, sockFile, ownerVersion, wire, codec, fileVars>>

\* connectToCurrentOwner after Lock: coordinator.ConnectOwner.  Without an
\* owner (empty file, or nobody listening) the session has no connection
\* and getFiles returns at once; a dial under an ended context returns the
\* context error and the session is closed; otherwise getFiles starts with
\* the goroutine that watches the context.
ConnectOwner(p) ==
    /\ phase[p] = "connect"
    /\ IF idFile = NoProc \/ (~ctxDone[p] /\ ~listening[idFile])
       THEN /\ phase' = [phase EXCEPT ![p] = "constructed"]
            /\ newErr' = [newErr EXCEPT ![p] = ErrNil]
            /\ UNCHANGED <<flock, connVars, hpc, watcher>>
       ELSE IF ctxDone[p]
       THEN /\ phase' = [phase EXCEPT ![p] = "failed"]
            /\ newErr' = [newErr EXCEPT ![p] = ErrContext]
            /\ flock' = Unlock(p)
            /\ UNCHANGED <<connVars, hpc, watcher>>
       ELSE /\ phase' = [phase EXCEPT ![p] = "getFiles"]
            /\ sessOwner' = [sessOwner EXCEPT ![p] = idFile]
            /\ ownerEnd' = [ownerEnd EXCEPT ![p] = TRUE]
            /\ peerEnd' = [peerEnd EXCEPT ![p] = TRUE]
            /\ hpc' = [hpc EXCEPT ![p] = "queued"]
            /\ watcher' = [watcher EXCEPT ![p] = "waiting"]
            /\ UNCHANGED <<flock, toPeer, toOwner, newErr>>
    /\ UNCHANGED <<state, upgradeCompleteC, stopPc, listening, readyErr,
                   storeVars, idFile, passedFiles, timedOut, ctxDone,
                   sockFile, ownerVersion, wire, codec, fileVars>>

\* The goroutine of getFiles that did not reach s.Close() returns when
\* functionEnd is closed, whichever case its select takes.
functionEnd(w) == IF w = "waiting" THEN "exited" ELSE w

\* upgradeSession.getFiles with an owner and a context: the metadata and
\* the files are read and functionEnd is closed; or a read fails (the
\* socket was closed by the watching goroutine or by the owner), the error
\* is wrapped in the context error if there is one, and becomeOwner closes
\* the session.
getFilesCtx(p) ==
    /\ phase[p] = "getFiles"
    /\ \/ /\ peerEnd[p]
          /\ toPeer[p] # <<>>
          /\ Head(toPeer[p]).type = "meta"
          /\ LET meta == Head(toPeer[p]).files
                 sockFiles == [i \in 1..Len(meta) |-> toPeer[p][i + 1].file]
             IN /\ fds' = [fds EXCEPT ![p] = associate(meta, sockFiles, EmptyFds)]
                /\ toPeer' = [toPeer EXCEPT ![p] =
                                 SubSeq(@, Len(meta) + 2, Len(@))]
          /\ phase' = [phase EXCEPT ![p] = "constructed"]
          /\ newErr' = [newErr EXCEPT ![p] = ErrNil]
          /\ UNCHANGED <<peerEnd, flock>>
       \/ /\ ~peerEnd[p] \/ (toPeer[p] = <<>> /\ ~ownerEnd[p])
          /\ peerEnd' = [peerEnd EXCEPT ![p] = FALSE]
          /\ flock' = Unlock(p)
          /\ phase' = [phase EXCEPT ![p] = "failed"]
          /\ newErr' = [newErr EXCEPT ![p] =
                            IF ctxDone[p] THEN ErrContext ELSE ErrGetFiles]
          /\ UNCHANGED <<fds, toPeer>>
    /\ watcher' = [watcher EXCEPT ![p] = functionEnd(@)]
    /\ UNCHANGED <<state, upgradeCompleteC, stopPc, listening, readyErr,
                   locked, lockedReason, idFile, sessOwner, ownerEnd, toOwner,
                   handlerVars, ctxDone, sockFile, ownerVersion, wire, codec, fileVars>>

\* The goroutine of getFiles: ctx.Done() is taken and the second select on
\* functionEnd takes its default case, getFiles not having returned.
ctxWatcher(p) ==
    /\ watcher[p] = "waiting"
    /\ ctxDone[p]
    /\ phase[p] = "getFiles"
    /\ watcher' = [watcher EXCEPT ![p] = "closing"]
    /\ UNCHANGED <<procVars, storeVars, coordVars, connVars, handlerVars,
                   ctxDone, newErr, sockFile, ownerVersion, wire, codec, fileVars>>

\* The goroutine of getFiles: s.Close(), which closes the socket and
\* unlocks the coordinator (once per session).
ctxWatcherClose(p) ==
    /\ watcher[p] = "closing"
    /\ watcher' = [watcher EXCEPT ![p] = "exited"]
    /\ peerEnd' = [peerEnd EXCEPT ![p] = FALSE]
    /\ flock' = Unlock(p)
    /\ UNCHANGED <<procVars, storeVars, idFile, sessOwner, ownerEnd, toPeer,
                   toOwner, handlerVars, ctxDone, newErr, sockFile,
                   ownerVersion, wire, codec, fileVars>>

\* New under a context that may end at any time, Ready, and the owner's
\* side of the handoff.
NextCtx ==
    \/ \E p \in Procs : NewListen(p)
    \/ \E p \in Procs : Cancel(p)
    \/ \E p \in Procs : Lock(p)
    \/ \E p \in Procs : LockReturn(p)
    \/ \E p \in Procs : ConnectOwner(p)
    \/ \E p \in Procs : getFilesCtx(p)
    \/ \E p \in Procs : ctxWatcher(p)
    \/ \E p \in Procs : ctxWatcherClose(p)
    \/ \E p \in Procs : Ready(p)
    \/ \E p \in Procs : readyHandshakeSendVersion(p)
    \/ \E p \in Procs : readyHandshakeAwait(p)
    \/ \E q \in Procs : serveUpgrades(q)
    \/ \E q \in Procs : handleUpgradeRequest(q)
    \/ \E q \in Procs : handlerLockMutations(q)
    \/ \E q \in Procs : handlerCopy(q)
    \/ \E q \in Procs : giveFDs(q)
    \/ \E q \in Procs : awaitReady(q)
    \/ \E q \in Procs : readyHandshake(q)
    \/ \E q \in Procs : steppingDown(q)
    \/ \E q \in Procs : handlerRemainOwner(q)
    \/ \E q \in Procs : handlerUnlockMutations(q)
    \/ \E q \in Procs : handlerLockCompleted(q)
    \/ \E q \in Procs : handlerDraining(q)
    \/ \E q \in Procs : handlerCloseUpgradeComplete(q)

SpecCtx == Init /\ [][NextCtx]_vars

\* New has returned nil to p, which found an owner, and Ready has not been
\* called.
ConstructedWithSession(p) ==
    /\ phase[p] = "constructed"
    /\ newErr[p] = ErrNil
    /\ sessOwner[p] # NoProc

\* C22: once New has returned nil the construction context has no effect:
\* whenever it ends, the session socket of the process stays open, the
\* process keeps the coordinator lock and stays in CheckingOwner until
\* Ready is called.
C22_ContextOnlyForConstruction ==
    \A p \in Procs :
        ConstructedWithSession(p)
        => /\ peerEnd[p]
           /\ flock = p
           /\ state[p] = upgraderStateCheckingOwner

\* C22 witness: the context of a process ended after its New had returned,
\* the watching goroutine has returned without closing, and its Ready
\* took ownership over from the owner.
C22_ReadyAfterLateCancel ==
    \E p \in Procs :
        /\ sessOwner[p] # NoProc
        /\ ctxDone[p]
        /\ watcher[p] = "exited"
        /\ newErr[p] = ErrNil
        /\ readyErr[p] = ErrNil
        /\ state[p] = upgraderStateOwner

\* C23: when the goroutine of getFiles has seen the context end while the
\* metadata and the files were being read, getFiles does not return the
\* files: New fails with the context error, the session is closed and the
\* lock released.
C23_ObservedCancelFailsNew ==
    [][\A p \in Procs :
        watcher[p] = "closing" /\ phase[p] = "getFiles" /\ phase'[p] # "getFiles"
        => /\ phase'[p] = "failed"
           /\ newErr'[p] = ErrContext
           /\ ~peerEnd'[p]
           /\ flock' # p]_vars

\* C23 witness: the context ended during the read, the socket was closed
\* under it, and New returned the context error with the lock released and
\* the owner-id file still naming the owner.
C23_NewFailedOnCancelledRead ==
    \E p \in Procs :
        /\ phase[p] = "failed"
        /\ newErr[p] = ErrContext
        /\ sessOwner[p] # NoProc
        /\ watcher[p] = "exited"
        /\ ~peerEnd[p]
        /\ flock # p
        /\ idFile = sessOwner[p]

\* ------------------------------------------------------------ coordinator.Lock
\* C26: when Lock returns the context error the calling process does not
\* hold the coordinator lock (and when it has obtained the lock, it returns
\* nil).
C26_NoLockHeldOnContextError ==
    [][\A p \in Procs :
        phase[p] = "lockReturn" /\ phase'[p] # "lockReturn"
        => IF flock = p
           THEN phase'[p] = "connect"
           ELSE phase'[p] = "failed" /\ newErr'[p] = ErrContext]_vars

\* C26 witness: a process waited in Lock while another process held the
\* lock, its context ended, and its New returned the context error without
\* the lock.
C26_CancelledWhileBlocked ==
    \E p, q \in Procs :
        /\ p # q
        /\ phase[p] = "failed"
        /\ newErr[p] = ErrContext
        /\ sessOwner[p] = NoProc
        /\ flock = q
        /\ phase[q] = "constructed"

\* ------------------------------------------------------------ no owner
\* coordinator.ConnectOwner returns errNoOwner: the owner-id file is empty,
\* or the process it names does not listen on its socket.
NoOwnerListening == idFile = NoProc \/ ~listening[idFile]

\* C24: when the owner-id file is empty or names a process that does not
\* accept connections, New returns an Upgrader without a connection and
\* with an empty catalog; Ready called on it in CheckingOwner returns nil,
\* the process is Owner and the owner-id file holds its id.
C24_NoOwnerMeansBecomeOwner ==
    [][\A p \in Procs :
        /\ phase[p] = "locking" /\ phase'[p] # "locking" /\ NoOwnerListening
           => /\ phase'[p] = "constructed"
              /\ sessOwner'[p] = NoProc
              /\ fds'[p] = EmptyFds
        /\ /\ phase[p] = "constructed" /\ phase'[p] # "constructed"
           /\ sessOwner[p] = NoProc
           /\ state[p] = upgraderStateCheckingOwner
           => /\ readyErr'[p] = ErrNil
              /\ state'[p] = upgraderStateOwner
              /\ idFile' = p]_vars

\* C24 witness: the owner named in the owner-id file crashed, a later
\* process was constructed without a connection, and its Ready made it
\* Owner.
C24_OwnerAfterCrashedOwner ==
    \E p, o \in Procs :
        /\ phase[o] = "crashed"
        /\ readyErr[o] = ErrNil
        /\ sessOwner[p] = NoProc
        /\ readyErr[p] = ErrNil
        /\ state[p] = upgraderStateOwner
        /\ idFile = p
        /\ o < p

\* ------------------------------------------------------------ one session at a time
\* The processes whose session has an open socket to an owner.
OpenSessions == {q \in Procs : peerEnd[q]}

\* C25: a process with an open session holds the coordinator lock, so at
\* most one session is open at a time, and a process connects to an owner
\* only while no other process has an open session.
C25_OneOpenSession ==
    /\ [](\A q \in Procs : peerEnd[q] => flock = q)
    /\ [](Cardinality(OpenSessions) <= 1)
    /\ [][\A r \in Procs :
            sessOwner'[r] # sessOwner[r] => OpenSessions \subseteq {r}]_vars

\* C25 witness: a process has an open session with the owner and holds
\* the lock while a third process waits for the lock in New.
C25_ThirdProcessWaits ==
    \E o, q, r \in Procs :
        /\ sessOwner[q] = o
        /\ peerEnd[q] /\ ownerEnd[q]
        /\ flock = q
        /\ phase[r] = "locking"
        /\ idFile = o /\ listening[o]

\* ------------------------------------------------------------ the version tag
\* A uint32 is kept as its two 16-bit halves, so that the arithmetic of the
\* code is done in 32 bits.
Half == 65536
U32(hi, lo) == [hi |-> hi, lo |-> lo]
\* The values of a uint32: every operation below stays within them.
UInt32 == [hi : 0..(Half - 1), lo : 0..(Half - 1)]
\* version % 16
Mod16(v) == v.lo % 16
\* version >> 4
ShiftRight4(v) == U32(v.hi \div 16, (v.hi % 16) * 4096 + v.lo \div 16)
\* version << 2 (the bits shifted out are lost)
ShiftLeft2(v) == U32((v.hi * 4 + v.lo \div 16384) % Half, (v.lo * 4) % Half)
\* version += crumb (modulo 2^32)
PlusCrumb(v, c) == U32((v.hi + (v.lo + c) \div Half) % Half, (v.lo + c) % Half)

\* The bytes ' ', '\t', '\r' and '\n'.
Space == 32
Tab == 9
CarriageReturn == 13
Newline == 10
Whitespace == {Space, Tab, CarriageReturn, Newline}

\* encodeCrumb
encodeCrumb(crumb) ==
    CASE crumb = 0 -> Space
      [] crumb = 1 -> Tab
      [] crumb = 2 -> CarriageReturn
      [] crumb = 3 -> Newline

ErrNotWhitespace == "char was not a whitespace encoding of a bytepair"

\* decodeCrumb: the crumb and the error
decodeCrumb(char) ==
    CASE char = Space -> [crumb |-> 0, err |-> ErrNil]
      [] char = Tab -> [crumb |-> 1, err |-> ErrNil]
      [] char = CarriageReturn -> [crumb |-> 2, err |-> ErrNil]
      [] char = Newline -> [crumb |-> 3, err |-> ErrNil]
      [] OTHER -> [crumb |-> 0, err |-> ErrNotWhitespace]

\* isJSONIgnorableWhitespace
isJSONIgnorableWhitespace(char) == char \in Whitespace

\* A faulty encodeVersion: the crumbs of a nibble are put in front of the
\* result instead of behind it.
RECURSIVE encodeVersionPrepend(_)
encodeVersionPrepend(version) ==
    IF version = U32(0, 0) THEN <<>>
    ELSE LET nibble == Mod16(version)
             crumb1 == nibble % 4
             crumb2 == nibble \div 4
         IN encodeVersionPrepend(ShiftRight4(version))
                \o <<encodeCrumb(crumb1), encodeCrumb(crumb2)>>

\* encodeVersion: two whitespace bytes per nibble, the lowest nibble first,
\* in each nibble the low crumb first.
RECURSIVE encodeVersion(_)
encodeVersion(version) ==
    IF version = U32(0, 0) THEN <<>>
    ELSE LET nibble == Mod16(version)
             crumb1 == nibble % 4
             crumb2 == nibble \div 4
         IN <<encodeCrumb(crumb1), encodeCrumb(crumb2)>>
                \o encodeVersion(ShiftRight4(version))

\* decodeVersion, its loop from data[i - 1] down to data[0]
RECURSIVE decodeVersionFrom(_, _, _)
decodeVersionFrom(data, i, version) ==
    IF i = 0 THEN [version |-> version, err |-> ErrNil]
    ELSE LET r == decodeCrumb(data[i])
             next == PlusCrumb(ShiftLeft2(version), r.crumb)
         IN IF r.err # ErrNil \/ next \notin UInt32
            THEN [version |-> U32(0, 0), err |-> r.err]
            ELSE decodeVersionFrom(data, i - 1, next)

\* decodeVersion: the version and the error
decodeVersion(data) == decodeVersionFrom(data, Len(data), U32(0, 0))

\* The largest of the small versions that are encoded.
MaxVersion == 40
\* The 16-bit halves the other versions are made of: the ends of the range,
\* single bits, and values whose crumbs differ.
Halves == {0, 1, 2, 3, 4, 15, 16, 27, 228, 255, 256, 4095, 4096, 6969,
           32767, 32768, 65534, 65535}
Versions ==
    {U32(0, lo) : lo \in 0..MaxVersion} \cup {U32(hi, lo) : hi, lo \in Halves}

\* A version is given to encodeVersion.
InitVersion ==
    /\ NoProcesses
    /\ ctxDone = [p \in Procs |-> FALSE]
    /\ watcher = [p \in Procs |-> "none"]
    /\ newErr = [p \in Procs |-> "none"]
    /\ sockFile = [p \in Procs |-> FALSE]
    /\ ownerVersion = [p \in Procs |-> 0]
    /\ wire = <<>>
    /\ NoDescriptors
    /\ \E v \in Versions : codec = [pc |-> "encodeVersion", version |-> v]

\* What the calls of the proto package leave alone.
protoFrame ==
    UNCHANGED <<procVars, storeVars, coordVars, connVars, handlerVars,
                ctxDone, watcher, newErr, sockFile, ownerVersion, fileVars>>

\* The tag of the version is written.
EncodeVersion ==
    /\ codec.pc = "encodeVersion"
    /\ wire' = encodeVersion(codec.version)
    /\ codec' = [codec EXCEPT !.pc = "decodeVersion"]
    /\ protoFrame

\* The tag is decoded.
DecodeVersion ==
    /\ codec.pc = "decodeVersion"
    /\ codec' = [pc |-> "decoded", version |-> codec.version,
                 result |-> decodeVersion(wire)]
    /\ UNCHANGED wire
    /\ protoFrame

NextVersion == EncodeVersion \/ DecodeVersion

SpecVersion == InitVersion /\ [][NextVersion]_vars

\* C27: the tag of a version consists of whitespace bytes only, the tags
\* of distinct versions differ, the tag of version 0 is empty, and
\* decodeVersion gives the version back without an error.
C27_VersionTagRoundTrip ==
    /\ codec.pc \in {"decodeVersion", "decoded"}
       => /\ \A i \in DOMAIN wire : wire[i] \in Whitespace
          /\ \A w \in Versions : w # codec.version => encodeVersion(w) # wire
          /\ (codec.version = U32(0, 0)) <=> (wire = <<>>)
    /\ codec.pc = "decoded"
       => codec.result = [version |-> codec.version, err |-> ErrNil]

\* C27 witness: a version with its highest bit set and with sixteen crumbs
\* that are not all equal has been encoded and decoded.
C27_FullWidthVersionDecoded ==
    /\ codec.pc = "decoded"
    /\ codec.version = U32(32768, 6969)
    /\ Len(wire) = 16

\* ------------------------------------------------------------ the framed JSON record
\* The bytes of JSON that occur in the encodings of the objects below.
LeftBracket == 91
RightBracket == 93
Comma == 44
Digit0 == 48
Digits == Digit0..(Digit0 + 9)

\* json.Encoder.Encode of a list of one-digit numbers: the elements between
\* brackets, separated by commas, and the newline the Encoder appends.
jsonElements(obj) ==
    IF obj = <<>> THEN <<>>
    ELSE [i \in 1..(2 * Len(obj) - 1) |->
            IF i % 2 = 1 THEN Digit0 + obj[(i + 1) \div 2] ELSE Comma]
jsonEncode(obj) == <<LeftBracket>> \o jsonElements(obj) \o <<RightBracket, Newline>>

ErrJSON == "can't decode names from owner process"

\* The index of the first byte from i on that is not whitespace, or
\* Len(data) + 1.
skipWhitespace(data, i) ==
    LET rest == {j \in i..Len(data) : ~isJSONIgnorableWhitespace(data[j])}
    IN IF rest = {} THEN Len(data) + 1
       ELSE CHOOSE j \in rest : \A k \in rest : j <= k

\* The value is read up to its closing bracket: between the brackets are
\* digits separated by commas, or nothing.
jsonUnmarshal(data) ==
    LET i == skipWhitespace(data, 1)
        closing == {j \in (i + 1)..Len(data) : data[j] = RightBracket}
        failed == [obj |-> <<>>, err |-> ErrJSON]
    IN IF i > Len(data) \/ data[i] # LeftBracket \/ closing = {}
       THEN failed
       ELSE LET j == CHOOSE k \in closing : \A l \in closing : k <= l
                n == j - i - 1
            IN IF skipWhitespace(data, j + 1) <= Len(data)
               THEN failed
               ELSE IF n = 0
               THEN [obj |-> <<>>, err |-> ErrNil]
               ELSE IF /\ n % 2 = 1
                       /\ \A k \in 1..n :
                              IF k % 2 = 1 THEN data[i + k] \in Digits
                              ELSE data[i + k] = Comma
               THEN [obj |-> [k \in 1..((n + 1) \div 2) |->
                                 data[i + 2 * k - 1] - Digit0],
                     err |-> ErrNil]
               ELSE failed

\* binary.Write(BigEndian, int32(n)) for 0 <= n < 2^31
bigEndianInt32(n) ==
    <<n \div 16777216, (n \div 65536) % 256, (n \div 256) % 256, n % 256>>
\* binary.Read(BigEndian, &int32): -1 stands for every negative length
readInt32(b) ==
    IF b[1] >= 128 THEN -1
    ELSE b[1] * 16777216 + b[2] * 65536 + b[3] * 256 + b[4]

\* WriteVersionedJSONBlob: the bytes written to dst
WriteVersionedJSONBlob(obj, version) ==
    LET jsonBlob == encodeVersion(version) \o jsonEncode(obj)
    IN bigEndianInt32(Len(jsonBlob)) \o jsonBlob

ErrReadLength == "protocol error: could not read length of json"
ErrReadJSON == "unable to read expected meta json length"
ErrPrefix == "could not determine version from prefix"
\* The run-time panic of make with a negative length.
PanicMakesliceLen == "panic: runtime error: makeslice: len out of range"

\* ReadVersionedJSONBlob: the part of the data before its first byte that
\* is not whitespace; empty when there is no such byte.
versionPrefix(data) ==
    LET i == skipWhitespace(data, 1)
    IN IF i > Len(data) THEN <<>> ELSE SubSeq(data, 1, i - 1)

\* A faulty reader: it decodes from a buffered reader of src, which takes
\* all the bytes that are there.
ReadVersionedJSONBlobBuffered(src) ==
    LET jsonLen == readInt32(SubSeq(src, 1, 4))
        data == SubSeq(src, 5, 4 + jsonLen)
        version == decodeVersion(versionPrefix(data))
        value == jsonUnmarshal(data)
    IN [version |-> version.version, obj |-> value.obj, err |-> value.err,
        rest |-> <<>>]

\* ReadVersionedJSONBlob: the version, the value, the error, and the bytes
\* of src left unread
ReadVersionedJSONBlob(src) ==
    IF Len(src) < 4
    THEN [version |-> U32(0, 0), obj |-> <<>>, err |-> ErrReadLength, rest |-> <<>>]
    ELSE LET jsonLen == readInt32(SubSeq(src, 1, 4))
         IN IF jsonLen < 0
            THEN \* make([]byte, jsonLen) panics: nothing is returned
                 [version |-> U32(0, 0), obj |-> <<>>, err |-> PanicMakesliceLen,
                  rest |-> SubSeq(src, 5, Len(src))]
            ELSE IF Len(src) < 4 + jsonLen
            THEN [version |-> U32(0, 0), obj |-> <<>>, err |-> ErrReadJSON,
                  rest |-> <<>>]
            ELSE LET data == SubSeq(src, 5, 4 + jsonLen)
                     rest == SubSeq(src, 5 + jsonLen, Len(src))
                     version == decodeVersion(versionPrefix(data))
                     value == jsonUnmarshal(data)
                 IN IF version.err # ErrNil
                    THEN [version |-> U32(0, 0), obj |-> <<>>, err |-> ErrPrefix,
                          rest |-> rest]
                    ELSE IF value.err # ErrNil
                    THEN [version |-> U32(0, 0), obj |-> <<>>, err |-> value.err,
                          rest |-> rest]
                    ELSE [version |-> version.version, obj |-> value.obj,
                          err |-> ErrNil, rest |-> rest]

\* The number of elements of the long list, whose record is longer than
\* 255 bytes.
LongList == 130
\* The values written: lists of one-digit numbers.
BlobObjs ==
    {<<>>, <<0>>, <<7>>, <<1, 2>>, <<9, 0, 9>>, [i \in 1..LongList |-> i % 10]}
\* The versions written.
BlobVersions == {U32(0, 0), U32(0, 1), U32(0, 2), U32(0, 27), U32(65535, 65535)}
\* What the sender writes to the socket after the record.
Tails ==
    {<<>>, <<Space>>, <<Newline, Tab>>, <<V0NotifyReady>>,
     <<LeftBracket, RightBracket>>, <<0, 0, 0, 3, LeftBracket, RightBracket, Newline>>}

\* A value and a version are given to WriteVersionedJSONBlob, and the
\* bytes the sender writes after the record are chosen.
InitBlob ==
    /\ NoProcesses
    /\ ctxDone = [p \in Procs |-> FALSE]
    /\ watcher = [p \in Procs |-> "none"]
    /\ newErr = [p \in Procs |-> "none"]
    /\ sockFile = [p \in Procs |-> FALSE]
    /\ ownerVersion = [p \in Procs |-> 0]
    /\ wire = <<>>
    /\ NoDescriptors
    /\ \E obj \in BlobObjs, v \in BlobVersions, tail \in Tails :
            codec = [pc |-> "write", obj |-> obj, version |-> v, tail |-> tail]

\* The record and then the tail are written to the socket.
WriteBlob ==
    /\ codec.pc = "write"
    /\ wire' = WriteVersionedJSONBlob(codec.obj, codec.version) \o codec.tail
    /\ codec' = [codec EXCEPT !.pc = "read"]
    /\ protoFrame

\* The record is read from the socket.
ReadBlob ==
    /\ codec.pc = "read"
    /\ LET r == ReadVersionedJSONBlob(wire)
       IN /\ wire' = r.rest
          /\ codec' = [pc |-> "done", obj |-> codec.obj, version |-> codec.version,
                       tail |-> codec.tail,
                       result |-> [version |-> r.version, obj |-> r.obj, err |-> r.err]]
    /\ protoFrame

NextBlob == WriteBlob \/ ReadBlob

SpecBlob == InitBlob /\ [][NextBlob]_vars

\* The length the first four bytes of the socket declare.
DeclaredLength == readInt32(SubSeq(wire, 1, 4))

\* C28: a record on the socket is its length in four big-endian bytes and
\* then exactly that many bytes, the version tag followed by the JSON;
\* reading it gives the version and the value back and leaves on the
\* socket exactly what was written after the record.
C28_RecordFramedAndReadExactly ==
    /\ codec.pc = "read"
       => /\ Len(wire) = 4 + DeclaredLength + Len(codec.tail)
          /\ wire = bigEndianInt32(DeclaredLength)
                        \o encodeVersion(codec.version)
                        \o jsonEncode(codec.obj)
                        \o codec.tail
    /\ codec.pc = "done"
       => /\ codec.result = [version |-> codec.version, obj |-> codec.obj,
                             err |-> ErrNil]
          /\ wire = codec.tail

\* C28 witness: a record of more than 255 bytes with a 16-byte version tag
\* was read, and the bytes of a following record are still on the socket.
C28_LongRecordReadTailLeft ==
    /\ codec.pc = "done"
    /\ Len(codec.obj) = LongList
    /\ codec.version = U32(65535, 65535)
    /\ Len(wire) = 7

\* ------------------------------------------------------------ processes of protocol version 0
\* The processes that run the earlier release, which speaks version 0.
V0Procs == {2}
\* The protocol version of the release a process runs.
Software(p) == IF p \in V0Procs THEN 0 ELSE ProtoVersion

\* The metadata frame of the earlier release: the JSON without a tag.
MetaMsgV0(files) == [type |-> "meta", version |-> 0, files |-> files]

\* sibling.writeFiles of the earlier release, up to the files: the untagged
\* metadata frame, then the files of the entries.
writeFiles(q) ==
    /\ hpc[q] = "giveFDs"
    /\ Software(OwnerOf(q)) = 0
    /\ IF Writable(q)
       THEN /\ \E order \in Orderings(DOMAIN passedFiles[q]) :
                    LET valid == validFds(order, passedFiles[q])
                    IN toPeer' = [toPeer EXCEPT ![q] =
                           @ \o <<MetaMsgV0(valid)>>
                             \o [i \in 1..Len(valid) |-> FdMsg(passedFiles[q][valid[i]])]]
            /\ hpc' = [hpc EXCEPT ![q] = "awaitReady"]
       ELSE /\ hpc' = [hpc EXCEPT ![q] = "transitionToOwner"]
            /\ UNCHANGED toPeer
    /\ UNCHANGED <<procVars, storeVars, coordVars, sessOwner, ownerEnd, peerEnd,
                   toOwner, passedFiles, timedOut>>
    /\ UNCHANGED envVars

\* sibling.writeFiles of the earlier release, its end: the byte notifyReady
\* makes the handoff complete, anything else is an error.
writeFilesReady(q) ==
    /\ hpc[q] = "awaitReady"
    /\ Software(OwnerOf(q)) = 0
    /\ CanRead(q)
    /\ toOwner' = [toOwner EXCEPT ![q] = AfterRead(q)]
    /\ hpc' = [hpc EXCEPT ![q] =
                IF ReadFrame(q) = ByteMsg(V0NotifyReady) THEN "lockCompleted"
                ELSE "transitionToOwner"]
    /\ UNCHANGED <<procVars, storeVars, coordVars, sessOwner, ownerEnd, peerEnd,
                   toPeer, passedFiles, timedOut>>
    /\ UNCHANGED envVars

\* upgradeSession.getFiles of the current release: as getFiles, and the
\* version ReadVersionedJSONBlob returns for the metadata frame is kept as
\* the owner's version.
getFilesVersioned(p) ==
    /\ phase[p] = "getFiles"
    /\ Software(p) = ProtoVersion
    /\ \/ /\ toPeer[p] # <<>>
          /\ Head(toPeer[p]).type = "meta"
          /\ LET meta == Head(toPeer[p]).files
                 sockFiles == [i \in 1..Len(meta) |-> toPeer[p][i + 1].file]
             IN /\ fds' = [fds EXCEPT ![p] = associate(meta, sockFiles, EmptyFds)]
                /\ toPeer' = [toPeer EXCEPT ![p] =
                                 SubSeq(@, Len(meta) + 2, Len(@))]
          /\ ownerVersion' = [ownerVersion EXCEPT ![p] = Head(toPeer[p]).version]
          /\ phase' = [phase EXCEPT ![p] = "constructed"]
          /\ UNCHANGED <<peerEnd, flock>>
       \/ /\ toPeer[p] = <<>>
          /\ ~ownerEnd[p]
          /\ peerEnd' = [peerEnd EXCEPT ![p] = FALSE]
          /\ flock' = Unlock(p)
          /\ phase' = [phase EXCEPT ![p] = "failed"]
          /\ UNCHANGED <<fds, toPeer, ownerVersion>>
    /\ UNCHANGED <<state, upgradeCompleteC, stopPc, listening, readyErr,
                   locked, lockedReason, idFile, sessOwner, ownerEnd, toOwner,
                   handlerVars>>
    /\ UNCHANGED <<ctxDone, watcher, newErr, sockFile, wire, codec, fileVars>>

\* upgradeSession.sendReady, the ready path of version 0: the byte
\* notifyReady is written and nothing is read; Ready goes on from the
\* result of the write.
sendReady(p) ==
    IF Writable(p)
    THEN /\ toOwner' = [toOwner EXCEPT ![p] = Append(@, ByteMsg(V0NotifyReady))]
         /\ ReadyFinish(p, ErrNil)
    ELSE /\ ReadyFinish(p, ErrHandshake)
         /\ UNCHANGED toOwner

\* The ready path of version 0 is taken by a process of the earlier
\* release, and by a process of the current release whose owner's metadata
\* frame had version 0.
V0ReadyPath(p) == Software(p) = 0 \/ ownerVersion[p] = 0

\* Upgrader.Ready with the choice of the ready path.
ReadyVersioned(p) ==
    /\ phase[p] = "constructed"
    /\ IF ~canTransitionTo(state[p], upgraderStateOwner)
       THEN /\ phase' = [phase EXCEPT ![p] = "readied"]
            /\ readyErr' = [readyErr EXCEPT ![p] = ErrCannotBecomeReady]
            /\ UNCHANGED <<state, idFile, flock, peerEnd, toOwner>>
       ELSE IF sessOwner[p] = NoProc
       THEN /\ ReadyFinish(p, ErrNil)
            /\ UNCHANGED toOwner
       ELSE IF V0ReadyPath(p)
       THEN sendReady(p)
       ELSE readyHandshakeStart(p)
    /\ UNCHANGED <<upgradeCompleteC, stopPc, listening, storeVars, sessOwner,
                   ownerEnd, toPeer, handlerVars>>
    /\ UNCHANGED envVars

NextV0 ==
    \/ \E p \in Procs : NewListen(p)
    \/ \E p \in Procs : connectToCurrentOwner(p)
    \/ \E p \in Procs : Software(p) = 0 /\ getFiles(p)
    \/ \E p \in Procs : getFilesVersioned(p)
    \/ \E p \in Procs : ReadyVersioned(p)
    \/ \E p \in Procs : readyHandshakeSendVersion(p)
    \/ \E p \in Procs : readyHandshakeAwait(p)
    \/ \E q \in Procs : serveUpgrades(q)
    \/ \E q \in Procs : handleUpgradeRequest(q)
    \/ \E q \in Procs : handlerLockMutations(q)
    \/ \E q \in Procs : handlerCopy(q)
    \/ \E q \in Procs : timeoutWatcher(q)
    \/ \E q \in Procs : Software(OwnerOf(q)) = ProtoVersion /\ giveFDs(q)
    \/ \E q \in Procs : writeFiles(q)
    \/ \E q \in Procs : Software(OwnerOf(q)) = ProtoVersion /\ awaitReady(q)
    \/ \E q \in Procs : writeFilesReady(q)
    \/ \E q \in Procs : readyHandshake(q)
    \/ \E q \in Procs : steppingDown(q)
    \/ \E q \in Procs : handlerRemainOwner(q)
    \/ \E q \in Procs : handlerUnlockMutations(q)
    \/ \E q \in Procs : handlerLockCompleted(q)
    \/ \E q \in Procs : handlerDraining(q)
    \/ \E q \in Procs : handlerCloseUpgradeComplete(q)

SpecV0 == Init /\ [][NextV0]_vars

\* Ready of a process of the current release whose owner sent a metadata
\* frame of version 0 is called in this step, is not rejected and can
\* write.
ReadyToV0Owner(p) ==
    /\ phase[p] = "constructed"
    /\ phase'[p] # "constructed"
    /\ Software(p) = ProtoVersion
    /\ sessOwner[p] # NoProc
    /\ ownerVersion[p] = 0
    /\ canTransitionTo(state[p], upgraderStateOwner)
    /\ Writable(p)

\* The handler of an owner of the current release reads the byte 42 as
\* the ready byte in this step.
OwnerReadsV0Ready(q) ==
    /\ hpc[q] = "awaitReady"
    /\ hpc'[q] # "awaitReady"
    /\ Software(OwnerOf(q)) = ProtoVersion
    /\ ReadFrame(q) = ByteMsg(V0NotifyReady)

Exited(p) == phase[p] = "crashed" \/ (phase[p] # "unstarted" /\ stopPc[p] = "done")

\* The number of processes that are gone and not replaced when a process
\* is killed or stopped.
MaxExits == 1

\* The process is killed, or exits without Stop: the kernel closes its
\* sockets and releases its lock; nothing removes the path of its socket.
Kill(p) ==
    /\ phase[p] \notin {"unstarted", "crashed"}
    /\ Cardinality({r \in Procs : Exited(r)}) < MaxExits
    /\ phase' = [phase EXCEPT ![p] = "crashed"]
    /\ listening' = [listening EXCEPT ![p] = FALSE]
    /\ ownerEnd' = [q \in Procs |-> IF q \in ConnsOf(p) THEN FALSE ELSE ownerEnd[q]]
    /\ peerEnd' = [peerEnd EXCEPT ![p] = FALSE]
    /\ hpc' = [q \in Procs |->
                IF q \in ConnsOf(p) /\ hpc[q] \notin Returned THEN "crashed" ELSE hpc[q]]
    /\ flock' = Unlock(p)
    /\ UNCHANGED <<state, upgradeCompleteC, stopPc, readyErr, storeVars, idFile,
                   sessOwner, toPeer, toOwner, passedFiles, timedOut>>
    /\ UNCHANGED envVars

\* The handler of q's connection is not running.
HandlerOver(q) == hpc[q] \in Returned \cup {"crashed"}

\* A new process is launched with the id of a process that is gone and
\* whose connections are over: it starts from the state of a new process,
\* in the directory as it is.
Relaunch(p) ==
    /\ Exited(p)
    /\ HandlerOver(p)
    /\ \A q \in ConnsOf(p) : HandlerOver(q)
    /\ phase' = [phase EXCEPT ![p] = "unstarted"]
    /\ state' = [state EXCEPT ![p] = upgraderStateCheckingOwner]
    /\ upgradeCompleteC' = [upgradeCompleteC EXCEPT ![p] = "open"]
    /\ stopPc' = [stopPc EXCEPT ![p] = "idle"]
    /\ listening' = [listening EXCEPT ![p] = FALSE]
    /\ readyErr' = [readyErr EXCEPT ![p] = "none"]
    /\ fds' = [fds EXCEPT ![p] = EmptyFds]
    /\ locked' = [locked EXCEPT ![p] = FALSE]
    /\ lockedReason' = [lockedReason EXCEPT ![p] = ErrNil]
    /\ sessOwner' = [sessOwner EXCEPT ![p] = NoProc]
    /\ ownerEnd' = [ownerEnd EXCEPT ![p] = FALSE]
    /\ peerEnd' = [peerEnd EXCEPT ![p] = FALSE]
    /\ toPeer' = [toPeer EXCEPT ![p] = <<>>]
    /\ toOwner' = [toOwner EXCEPT ![p] = <<>>]
    /\ hpc' = [hpc EXCEPT ![p] = "none"]
    /\ passedFiles' = [passedFiles EXCEPT ![p] = EmptyFds]
    /\ timedOut' = [timedOut EXCEPT ![p] = "no"]
    /\ newErr' = [newErr EXCEPT ![p] = "none"]
    /\ flock' = Unlock(p)
    /\ UNCHANGED <<idFile, ctxDone, watcher, sockFile, ownerVersion, wire, codec, fileVars>>

NextReuse ==
    \/ HandoffStep
    \/ \E q \in Procs : handlerRemainOwner(q)
    \/ \E q \in Procs : handlerUnlockMutations(q)
    \/ \E p \in Procs : Cardinality({r \in Procs : Exited(r)}) < MaxExits /\ Stop(p)
    \/ \E p \in Procs : StopOnce(p)
    \/ \E p \in Procs : StopClose(p)
    \/ \E p \in Procs : Kill(p)
    \/ \E p \in Procs : Relaunch(p)

SpecReuse == Init /\ [][NextReuse]_vars

\* New of p gets to coordinator.Listen in this step.
Listens(p) == phase[p] = "unstarted" /\ phase'[p] # "unstarted"

\* C30: Listen succeeds when the path of the process's socket exists, left
\* by an earlier process with the same id: the process listens and New
\* goes on to the lock.
C30_ListenSucceedsOnStalePath ==
    [][\A p \in Procs :
        Listens(p) /\ sockFile[p]
        => /\ listening'[p]
           /\ phase'[p] = "locking"]_vars

\* C30 witness: a process was launched with the id of a process that had
\* been killed, found the path of the socket and its New returned the
\* error of the bind, while the owner-id file still names the id.
C30_ReusedIdNotConstructed ==
    \E p \in Procs :
        /\ phase[p] = "failed"
        /\ newErr[p] = ErrAddrInUse
        /\ sockFile[p]
        /\ ~listening[p]
        /\ idFile = p

\* ------------------------------------------------------------ Stop called again
\* upgradeSession.Close has run for p (closeOnce): in Stop, or deferred in a
\* Ready that has returned.
SessionClosed(p) == stopPc[p] # "idle" \/ phase[p] = "readied"

\* Upgrader.Stop called on an Upgrader whose Stop has returned:
\* mustTransitionTo(Stopped), session.Close (closeOnce: nothing when it has
\* run) and stopOnce.Do, which does not run its function again.
StopAgain(p) ==
    /\ phase[p] # "crashed"
    /\ stopPc[p] = "done"
    /\ state' = [state EXCEPT ![p] = transitionTo(@, upgraderStateStopped)]
    /\ IF SessionClosed(p)
       THEN UNCHANGED <<peerEnd, flock>>
       ELSE /\ peerEnd' = [peerEnd EXCEPT ![p] = FALSE]
            /\ flock' = Unlock(p)
    /\ stopPc' = [stopPc EXCEPT ![p] = "again"]
    /\ UNCHANGED <<phase, upgradeCompleteC, listening, readyErr, storeVars,
                   idFile, sessOwner, ownerEnd, toPeer, toOwner, handlerVars>>
    /\ UNCHANGED envVars

\* The handoff with upgrade timers, with Stop, and with Stop called once
\* more after it has returned; the FD store is not used by the application.
NextStop ==
    \/ RetryStep
    \/ \E q \in Procs : timeoutWatcher(q)
    \/ \E p \in Procs : Stop(p)
    \/ \E p \in Procs : StopAgain(p)

SpecStop == Init /\ [][NextStop]_vars

\* The fields of p that Stop sets, and the lock.
StopEffects(p) ==
    <<state[p], peerEnd[p], flock, locked[p], lockedReason[p], listening[p],
      sockFile[p], upgradeCompleteC[p], phase[p]>>

\* C31: Stop moves the upgrader to Stopped from whatever state it is in,
\* closes the session and leaves the coordinator lock not held by the
\* process; its stopOnce part locks the FD store with ErrUpgraderStopped and
\* closes the upgrade socket; UpgradeComplete is closed when the Stop that
\* found it open returns, and left as it is when Stop found it closed; a
\* further call of Stop returns without a panic and changes none of these.
C31_StopEffectsAndIdempotent ==
    [][\A p \in Procs :
        /\ (stopPc[p] = "idle" /\ stopPc'[p] = "stopOnce")
              => /\ state'[p] = upgraderStateStopped
                 /\ ~peerEnd'[p]
                 /\ flock' # p
        /\ (stopPc[p] = "stopOnce" /\ stopPc'[p] # "stopOnce")
              => /\ locked'[p]
                 /\ lockedReason'[p] = ErrUpgraderStopped
                 /\ ~listening'[p]
                 /\ upgradeCompleteC'[p] = upgradeCompleteC[p]
        /\ (stopPc[p] = "close" /\ stopPc'[p] = "done" /\ phase'[p] # "crashed")
              => upgradeCompleteC'[p] = "closed"
        /\ (stopPc[p] = "done" /\ stopPc'[p] = "again")
              => /\ StopEffects(p)' = StopEffects(p)
                 /\ state[p] = upgraderStateStopped
                 /\ phase'[p] # "crashed"]_vars

\* C31 witness: Stop was called on an upgrader that was serving a handoff
\* (TransferringOwnership), and was called again after it had returned: the
\* upgrader is Stopped, its socket and UpgradeComplete are closed.
C31_StoppedTwiceDuringHandoff ==
    \E p \in Procs :
        /\ stopPc[p] = "again"
        /\ state[p] = upgraderStateStopped
        /\ ~listening[p]
        /\ upgradeCompleteC[p] = "closed"
        /\ \E q \in ConnsOf(p) : hpc[q] = "failedStopped"

\* ------------------------------------------------------------ descriptors of the store
\* The descriptors of p that are closed.
FreeFds(p) == {n \in Fd : fdTable[p][n] = NoFile}

\* The k-th lowest closed descriptor of p: what the k-th of a series of
\* open, dup or recvmsg calls returns.
NthFree(p, k) ==
    CHOOSE n \in FreeFds(p) : Cardinality({m \in FreeFds(p) : m < n}) = k - 1

\* The number of handles the applications of all processes hold.
HandlesOpen == Cardinality({x \in Procs \X Fd : x[2] \in handles[x[1]]})

\* A store that keeps the caller's descriptor instead of a duplicate.
dupFdSame(p, fd, k) == fd

\* dupFd (fcntl F_DUPFD_CLOEXEC): the new descriptor of the file of fd,
\* when it is the k-th descriptor the call in progress opens.
dupFd(p, fd, k) == NthFree(p, k)

\* The descriptor table of p after d was made a descriptor of file.
Opened(table, d, file) == [table EXCEPT ![d] = file]

\* The entry of id in p's store has a file, and its descriptor is open on
\* that file: the entry can be looked up and sent.
EntryValid(p, id) ==
    /\ id \in DOMAIN fds[p] /\ HasFile(fds[p], id)
    /\ id \in DOMAIN entryFd[p]
    /\ fdTable[p][entryFd[p][id]] = fds[p][id]

\* Fds.ListenWith / DialWith / OpenFileWith with an id that is not in the
\* store: the function of the caller opens the file, addConnLocked stores a
\* duplicate of its descriptor, and the caller's handle is returned.
AddFile(p, id) ==
    /\ phase[p] = "readied"
    /\ id \notin DOMAIN fds[p]
    /\ AddResult(p, id) = ErrNil
    /\ Cardinality(FreeFds(p)) >= 2
    /\ HandlesOpen < MaxHandles
    /\ LET h == NthFree(p, 1)
           d == dupFd(p, h, 2)
       IN /\ fdTable' = [fdTable EXCEPT ![p] = Opened(Opened(@, h, p), d, p)]
          /\ entryFd' = [entryFd EXCEPT ![p] = Put(@, id, d)]
          /\ handles' = [handles EXCEPT ![p] = @ \cup {h}]
    /\ fds' = [fds EXCEPT ![p] = Put(fds[p], id, p)]
    /\ UNCHANGED <<procVars, locked, lockedReason, coordVars, connVars, handlerVars>>
    /\ UNCHANGED <<ctxDone, watcher, newErr, sockFile, ownerVersion, wire, codec>>

\* Fds.Listener / Conn / File, and Listen / ListenWith / DialWith /
\* OpenFileWith with an id that is in the store: listenerLocked, connLocked
\* or fileLocked returns a handle on a duplicate of the entry's descriptor.
\* The lock of the store is not read.
Lookup(p, id) ==
    /\ phase[p] = "readied"
    /\ LookupResult(p, id) # NoFile
    /\ fdTable[p][entryFd[p][id]] # NoFile
    /\ FreeFds(p) # {}
    /\ HandlesOpen < MaxHandles
    /\ LET d == dupFd(p, entryFd[p][id], 1)
       IN /\ fdTable' = [fdTable EXCEPT ![p] = Opened(@, d, @[entryFd[p][id]])]
          /\ handles' = [handles EXCEPT ![p] = @ \cup {d}]
    /\ UNCHANGED <<procVars, storeVars, coordVars, connVars, handlerVars, entryFd>>
    /\ UNCHANGED <<ctxDone, watcher, newErr, sockFile, ownerVersion, wire, codec>>

\* The application closes a handle it was given.
CloseHandle(p, h) ==
    /\ phase[p] = "readied"
    /\ h \in handles[p]
    /\ fdTable' = [fdTable EXCEPT ![p] = Opened(@, h, NoFile)]
    /\ handles' = [handles EXCEPT ![p] = @ \ {h}]
    /\ UNCHANGED <<procVars, storeVars, coordVars, connVars, handlerVars, entryFd>>
    /\ UNCHANGED <<ctxDone, watcher, newErr, sockFile, ownerVersion, wire, codec>>

\* Fds.Remove: the entry is deleted and its file is closed.
RemoveFile(p, id) ==
    /\ phase[p] = "readied"
    /\ RemoveResult(p, id) = ErrNil
    /\ fds' = [fds EXCEPT ![p] = Drop(fds[p], id)]
    /\ IF id \in DOMAIN entryFd[p]
       THEN /\ fdTable' = [fdTable EXCEPT ![p] = Opened(@, entryFd[p][id], NoFile)]
            /\ entryFd' = [entryFd EXCEPT ![p] = Drop(@, id)]
       ELSE UNCHANGED <<fdTable, entryFd>>
    /\ UNCHANGED <<procVars, locked, lockedReason, coordVars, connVars, handlerVars>>
    /\ UNCHANGED <<ctxDone, watcher, newErr, sockFile, ownerVersion, wire, codec,
                   handles>>

\* upgradeSession.getFiles: recvFile gives the process a descriptor of its
\* own for each file of the metadata, in their order, and the entry of
\* the new store holds it.
getFilesRecv(p) ==
    /\ getFilesFrames(p)
    /\ IF phase'[p] = "constructed"
       THEN LET meta == Head(toPeer[p]).files
                at(id) == CHOOSE i \in 1..Len(meta) : meta[i] = id
                recv == [id \in DOMAIN fds'[p] |-> NthFree(p, at(id))]
            IN /\ entryFd' = [entryFd EXCEPT ![p] = recv]
               /\ fdTable' = [fdTable EXCEPT ![p] =
                    [n \in Fd |-> IF \E id \in DOMAIN recv : recv[id] = n
                                  THEN fds'[p][CHOOSE id \in DOMAIN recv : recv[id] = n]
                                  ELSE @[n]]]
       ELSE UNCHANGED <<fdTable, entryFd>>
    /\ UNCHANGED <<ctxDone, watcher, newErr, sockFile, ownerVersion, wire, codec,
                   handles>>

\* The handoff, with its failures, and Stop, with the application adding, looking up and
\* removing entries of the store and closing the handles it was given.
NextFiles ==
    \/ \E p \in Procs : NewListen(p)
    \/ \E p \in Procs : connectToCurrentOwner(p)
    \/ \E p \in Procs : getFilesRecv(p)
    \/ \E p \in Procs : Ready(p)
    \/ \E p \in Procs : readyHandshakeSendVersion(p)
    \/ \E p \in Procs : readyHandshakeAwait(p)
    \/ \E q \in Procs : serveUpgrades(q)
    \/ \E q \in Procs : handleUpgradeRequest(q)
    \/ \E q \in Procs : handlerLockMutations(q)
    \/ \E q \in Procs : handlerCopy(q)
    \/ \E q \in Procs : giveFDs(q)
    \/ \E q \in Procs : awaitReady(q)
    \/ \E q \in Procs : readyHandshake(q)
    \/ \E q \in Procs : steppingDown(q)
    \/ \E q \in Procs : handlerLockCompleted(q)
    \/ \E q \in Procs : handlerDraining(q)
    \/ \E q \in Procs : handlerCloseUpgradeComplete(q)
    \/ \E q \in Procs : handlerRemainOwner(q)
    \/ \E q \in Procs : handlerUnlockMutations(q)
    \/ \E p \in Procs : Stop(p)
    \/ \E p \in Procs : StopOnce(p)
    \/ \E p \in Procs : StopClose(p)
    \/ \E p \in Procs, id \in FdIds : AddFile(p, id)
    \/ \E p \in Procs, id \in FdIds : Lookup(p, id)
    \/ \E p \in Procs, h \in Fd : CloseHandle(p, h)
    \/ \E p \in Procs, id \in FdIds : RemoveFile(p, id)

SpecFiles == Init /\ [][NextFiles]_vars

\* The application of p closes a handle.
ClosesHandle(p) == handles'[p] # handles[p] /\ handles'[p] \subseteq handles[p]

\* The handler of p's upgrade request takes the snapshot of its store
\* (Fds.copy) that giveFDs sends.
TakesSnapshot(p) == hpc[p] = "copy" /\ hpc'[p] = "giveFDs"

\* New returns to p with the store it read from its owner.
ReceivesStore(p) == phase[p] = "getFiles" /\ phase'[p] = "constructed"

\* C32: closing a handle the store returned does not remove or invalidate
\* the entry: every entry with a file keeps an open descriptor of its own
\* on that file, so it can be looked up again; the close of a handle
\* changes no store; an entry leaves a store only in a Remove of its id;
\* the snapshot a handoff takes of the store has every entry with a file,
\* and the store the successor reads has every entry of the snapshot.
C32_ClosedHandleLeavesEntry ==
    /\ [](\A p \in Procs : \A id \in DOMAIN fds[p] :
            HasFile(fds[p], id) => EntryValid(p, id))
    /\ [][\A p \in Procs :
            /\ ClosesHandle(p) => fds' = fds /\ entryFd' = entryFd
            /\ \A id \in DOMAIN fds[p] :
                    id \notin DOMAIN fds'[p] => RemoveResult(p, id) = ErrNil
                                                /\ fds'[p] = Drop(fds[p], id)
            /\ TakesSnapshot(p) =>
                    \A id \in DOMAIN fds[OwnerOf(p)] :
                        HasFile(fds[OwnerOf(p)], id) =>
                            /\ id \in DOMAIN passedFiles'[p]
                            /\ passedFiles'[p][id] = fds[OwnerOf(p)][id]
            /\ ReceivesStore(p) =>
                    \A id \in DOMAIN passedFiles[p] :
                        HasFile(passedFiles[p], id) =>
                            /\ id \in DOMAIN fds'[p]
                            /\ fds'[p][id] = passedFiles[p][id]
                            /\ EntryValid(p, id)']_vars

\* C32 witness: a process added an entry and closed the handle it got; the
\* entry was handed to its successor, which has called Ready and holds a
\* handle from a lookup of the entry; the first process still has it.
C32_ClosedThenHandedOver ==
    \E p, q \in Procs : \E id \in FdIds :
        /\ sessOwner[q] = p /\ readyErr[q] = ErrNil
        /\ EntryValid(p, id) /\ fds[p][id] = p
        /\ handles[p] = {}
        /\ EntryValid(q, id) /\ fds[q][id] = p
        /\ handles[q] # {}

\* Stop has returned to the application of p.
StopReturned(p) == stopPc[p] = "done" /\ phase[p] # "crashed"

\* The handler of q has handed the store over: giveFDs returned nil.
HandedOver(q) == sessOwner[q] # NoProc /\ hpc[q] \in {"lockCompleted", "transitionToDraining", "close", "completed"}

\* C33: an entry is destroyed only by Remove or by Stop: Stop leaves no
\* entry of the process with an open descriptor; a handoff neither removes
\* nor closes an entry of the sender, which can still be looked up there
\* after the handoff.
C33_EntriesEndWithRemoveOrStop ==
    /\ [](\A p \in Procs : StopReturned(p) =>
            \A id \in DOMAIN entryFd[p] : fdTable[p][entryFd[p][id]] = NoFile)
    /\ [](\A q \in Procs : HandedOver(q) =>
            \A id \in DOMAIN passedFiles[q] :
                /\ HasFile(passedFiles[q], id)
                /\ stopPc[OwnerOf(q)] = "idle"
                /\ id \in DOMAIN fds[OwnerOf(q)]
                => EntryValid(OwnerOf(q), id))
    /\ [][\A p \in Procs : \A id \in DOMAIN fds[p] :
            (id \notin DOMAIN fds'[p] \/ ~EntryValid(p, id)')
                => \/ RemoveResult(p, id) = ErrNil /\ fds'[p] = Drop(fds[p], id)
                   \/ stopPc[p] # stopPc'[p]
                   \/ ~EntryValid(p, id)]_vars

\* C33 witness: Stop has returned on a process that had handed its store to
\* a successor and still holds an entry of it.
C33_StoppedWithEntry ==
    \E p, q \in Procs : \E id \in FdIds :
        /\ StopReturned(p)
        /\ sessOwner[q] = p /\ HandedOver(q)
        /\ id \in DOMAIN passedFiles[q]
        /\ id \in DOMAIN fds[p]

\* ------------------------------------------------------------ a peer that does not follow the protocol
\* The processes that run other software on the coordination directory: it
\* connects and reads the files as a successor does, and then writes what
\* it likes instead of calling this package's Ready.
ForeignProcs == {2}

\* First bytes that are neither the v0 ready byte nor the start of the v1
\* handshake.
OtherBytes == {0, V0NotifyReady + 1}

\* A frame that is not the JSON of a VersionInformation.
Garbage == [type |-> "garbage"]

\* A frame whose four bytes of length are a negative int32.
NegativeLength == [type |-> "negativeLength"]

\* The frames a foreign peer may write after the start byte that the owner's
\* readyHandshake must reject.
BadVersionFrames ==
    {VersionInformation(0), VersionInformation(ProtoVersion + 1), Garbage,
     NegativeLength}

\* The positions of a foreign peer after it has written.
ForeignPhases == {"wroteOther", "wroteStart", "wroteVersion", "wroteBadVersion"}

\* What the steps of a foreign peer leave alone.
peerFrame ==
    /\ UNCHANGED <<state, upgradeCompleteC, stopPc, listening, readyErr, storeVars,
                   idFile, sessOwner, ownerEnd, toPeer, handlerVars>>
    /\ UNCHANGED envVars

\* The peer writes a first byte that is not a ready byte.
PeerWritesOther(p, b) ==
    /\ p \in ForeignProcs /\ phase[p] = "constructed"
    /\ sessOwner[p] # NoProc /\ Writable(p)
    /\ toOwner' = [toOwner EXCEPT ![p] = Append(@, ByteMsg(b))]
    /\ phase' = [phase EXCEPT ![p] = "wroteOther"]
    /\ UNCHANGED <<peerEnd, flock>>
    /\ peerFrame

\* The peer writes the start byte of the v1 handshake.
PeerStartsHandshake(p) ==
    /\ p \in ForeignProcs /\ phase[p] = "constructed"
    /\ sessOwner[p] # NoProc /\ Writable(p)
    /\ toOwner' = [toOwner EXCEPT ![p] = Append(@, ByteMsg(V1StartReadyHandshake))]
    /\ phase' = [phase EXCEPT ![p] = "wroteStart"]
    /\ UNCHANGED <<peerEnd, flock>>
    /\ peerFrame

\* The peer writes a frame after the start byte: the VersionInformation of
\* this protocol version, of another version, or something else.
PeerWritesVersion(p, f) ==
    /\ p \in ForeignProcs /\ phase[p] = "wroteStart"
    /\ Writable(p)
    /\ toOwner' = [toOwner EXCEPT ![p] = Append(@, f)]
    /\ phase' = [phase EXCEPT ![p] =
                    IF f \in BadVersionFrames THEN "wroteBadVersion" ELSE "wroteVersion"]
    /\ UNCHANGED <<peerEnd, flock>>
    /\ peerFrame

\* The peer closes its end of the connection, or exits: the kernel
\* releases its lock.
PeerCloses(p) ==
    /\ p \in ForeignProcs /\ phase[p] \in ForeignPhases \cup {"constructed"}
    /\ sessOwner[p] # NoProc /\ peerEnd[p]
    /\ peerEnd' = [peerEnd EXCEPT ![p] = FALSE]
    /\ flock' = Unlock(p)
    /\ UNCHANGED <<phase, toOwner>>
    /\ peerFrame

\* A goroutine of o panics in make([]byte, n) with a negative n: the
\* process dies, the kernel closes its sockets and releases its lock.
PanicMakeslice(o) ==
    /\ phase' = [phase EXCEPT ![o] = "crashed"]
    /\ listening' = [listening EXCEPT ![o] = FALSE]
    /\ ownerEnd' = [q \in Procs |-> IF q \in ConnsOf(o) THEN FALSE ELSE ownerEnd[q]]
    /\ peerEnd' = [peerEnd EXCEPT ![o] = FALSE]
    /\ hpc' = [q \in Procs |->
                IF q \in ConnsOf(o) /\ hpc[q] \notin Returned THEN "crashed" ELSE hpc[q]]
    /\ flock' = Unlock(o)

\* sibling.readyHandshake with proto.ReadJSONBlob followed to its make: a
\* declared length below zero panics, every other frame is read and
\* judged.
readyHandshakeBlob(q) ==
    /\ hpc[q] = "readyHandshake"
    /\ CanRead(q)
    /\ IF ReadFrame(q) = NegativeLength
       THEN /\ PanicMakeslice(OwnerOf(q))
            /\ toOwner' = [toOwner EXCEPT ![q] = AfterRead(q)]
            /\ UNCHANGED <<state, upgradeCompleteC, stopPc, readyErr, storeVars,
                           idFile, sessOwner, toPeer, passedFiles, timedOut>>
            /\ UNCHANGED envVars
       ELSE readyHandshake(q)

\* The handoff with its failures and with Stop, where the processes of
\* ForeignProcs are foreign peers.
NextPeer ==
    \/ \E p \in Procs : NewListen(p)
    \/ \E p \in Procs : connectToCurrentOwner(p)
    \/ \E p \in Procs : getFiles(p)
    \/ \E p \in Procs \ ForeignProcs : Ready(p)
    \/ \E p \in Procs : readyHandshakeSendVersion(p)
    \/ \E p \in Procs : readyHandshakeAwait(p)
    \/ \E p \in Procs \ ForeignProcs : Stop(p)
    \/ \E p \in Procs : StopOnce(p)
    \/ \E p \in Procs : StopClose(p)
    \/ \E q \in Procs : serveUpgrades(q)
    \/ \E q \in Procs : handleUpgradeRequest(q)
    \/ \E q \in Procs : handlerLockMutations(q)
    \/ \E q \in Procs : handlerCopy(q)
    \/ \E q \in Procs : giveFDs(q)
    \/ \E q \in Procs : awaitReady(q)
    \/ \E q \in Procs : readyHandshakeBlob(q)
    \/ \E q \in Procs : steppingDown(q)
    \/ \E q \in Procs : handlerRemainOwner(q)
    \/ \E q \in Procs : handlerUnlockMutations(q)
    \/ \E q \in Procs : handlerLockCompleted(q)
    \/ \E q \in Procs : handlerDraining(q)
    \/ \E q \in Procs : handlerCloseUpgradeComplete(q)
    \/ \E p \in Procs, b \in OtherBytes : PeerWritesOther(p, b)
    \/ \E p \in Procs : PeerStartsHandshake(p)
    \/ \E p \in Procs, f \in BadVersionFrames \cup {VersionInformation(ProtoVersion)} :
            PeerWritesVersion(p, f)
    \/ \E p \in Procs : PeerCloses(p)

SpecPeer == Init /\ [][NextPeer]_vars

\* The handler of q's request reads the first byte in this step.
ReadsFirstByte(q) == hpc[q] = "awaitReady" /\ hpc'[q] # "awaitReady"

\* C34: awaitReady returns nil only when the first byte read is the v0 ready
\* byte, or the start byte of the v1 handshake and that handshake completes;
\* on any other byte, on a failed read or on a read without a byte giveFDs
\* returns an error, and the handler takes the owner back to Owner instead
\* of stepping down.
C34_OnlyReadyBytesAccepted ==
    [][\A q \in Procs :
        /\ ReadsFirstByte(q) =>
              /\ hpc'[q] = "lockCompleted" => ReadFrame(q) = ByteMsg(V0NotifyReady)
              /\ hpc'[q] = "readyHandshake"
                    => ReadFrame(q) = ByteMsg(V1StartReadyHandshake)
              /\ ReadFrame(q) \notin {ByteMsg(V0NotifyReady),
                                      ByteMsg(V1StartReadyHandshake)}
                    => hpc'[q] = "transitionToOwner"
        /\ (hpc[q] = "transitionToOwner" /\ hpc'[q] # "transitionToOwner"
               /\ state[OwnerOf(q)] = upgraderStateTransferringOwnership)
              => state'[OwnerOf(q)] = upgraderStateOwner]_vars

\* C34 witness: the owner has read a first byte that is not a ready byte
\* from its peer, which has written nothing else, and the handler has gone
\* on from awaitReady.
C34_OtherByteRead ==
    \E q \in Procs :
        /\ phase[q] = "wroteOther"
        /\ toOwner[q] = <<>>
        /\ hpc[q] \notin {"awaitReady", "giveFDs"}
        /\ timedOut[q] = "no"

\* The handler of q's request reads the frame after the start byte in this
\* step.
ReadsVersion(q) == hpc[q] = "readyHandshake" /\ hpc'[q] # "readyHandshake"

\* The handler of q is at or past the write of "stepping down".
SteppedDown(q) ==
    hpc[q] \in {"steppingDown", "lockCompleted", "transitionToDraining", "close",
                "completed"}

\* C35: in the v1 handshake, when the peer's VersionInformation cannot be
\* read or names another version than the owner's, readyHandshake returns
\* an error and writes nothing: the handler goes on to its error path,
\* "stepping down" is never sent to that peer, and the handler takes the
\* owner back to Owner.
C35_BadVersionKeepsOwner ==
    /\ [][\A q \in Procs :
            /\ (ReadsVersion(q) /\ ReadFrame(q) # VersionInformation(ProtoVersion))
                  => /\ hpc'[q] = "transitionToOwner"
                     /\ toPeer'[q] = toPeer[q]
                     /\ state'[OwnerOf(q)] = state[OwnerOf(q)]
            /\ (hpc[q] = "transitionToOwner" /\ hpc'[q] = "unlockMutations")
                  => state'[OwnerOf(q)] = upgraderStateOwner]_vars
    /\ [](\A q \in Procs : phase[q] = "wroteBadVersion" =>
            /\ ~SteppedDown(q)
            /\ \A i \in DOMAIN toPeer[q] : toPeer[q][i] # Message(V1MessageSteppingDown))

\* C35 witness: the peer wrote the start byte and a frame that the owner
\* cannot read as the VersionInformation of its version, the handler has
\* read it, and the owner's process is gone.
C35_OwnerGoneAfterBadFrame ==
    \E q \in Procs :
        /\ phase[q] = "wroteBadVersion"
        /\ toOwner[q] = <<>>
        /\ hpc[q] = "crashed"
        /\ phase[OwnerOf(q)] = "crashed"

\* The handler of q's request writes "stepping down" in this step and the
\* write fails.
SteppingDownWriteFails(q) ==
    hpc[q] = "steppingDown" /\ hpc'[q] # "steppingDown" /\ ~Writable(q)

\* C36: when the write of "stepping down" fails, readyHandshake returns nil
\* all the same: the handler goes on as after a successful handoff, the
\* owner enters Draining (unless it was stopped), UpgradeComplete is closed,
\* and the owner is never Owner again.
C36_FailedSteppingDownStillDrains ==
    /\ [][\A q \in Procs :
            /\ SteppingDownWriteFails(q)
                  => hpc'[q] = "lockCompleted" /\ toPeer'[q] = toPeer[q]
            /\ (hpc[q] = "transitionToDraining" /\ hpc'[q] = "close")
                  => state'[OwnerOf(q)] \in {upgraderStateDraining, upgraderStateStopped}
            /\ (hpc[q] = "close" /\ hpc'[q] = "completed")
                  => upgradeCompleteC'[OwnerOf(q)] = "closed"]_vars
    /\ [](\A q \in Procs : (sessOwner[q] # NoProc /\ SteppedDown(q)) =>
            state[OwnerOf(q)] # upgraderStateOwner)

\* C36 witness: the peer sent the start byte and its version and closed its
\* end; the owner's write of "stepping down" failed (nothing was written),
\* and the owner is Draining with UpgradeComplete closed.
C36_DrainingAfterFailedWrite ==
    \E q \in Procs :
        /\ phase[q] = "wroteVersion" /\ ~peerEnd[q]
        /\ toPeer[q] = <<>>
        /\ hpc[q] = "completed"
        /\ state[OwnerOf(q)] = upgraderStateDraining
        /\ upgradeCompleteC[OwnerOf(q)] = "closed"

\* ------------------------------------------------------------ the upgrade timer
\* sendFile: socket.Fd() puts the descriptor of connFile, and with it the
\* open file description it shares with sibling.conn, into blocking mode.
\* giveFDs has called sendFile once it has written the files of a snapshot
\* that has an entry with a file.
connBlocking(q) ==
    /\ hpc[q] \in {"awaitReady", "readyHandshake", "steppingDown"}
    /\ \E id \in DOMAIN passedFiles[q] : HasFile(passedFiles[q], id)

\* The handler's Read on q's connection has nothing to return: no frame has
\* arrived and both ends are open.
ReadBlocks(q) == hpc[q] \in {"awaitReady", "readyHandshake"} /\ ~CanRead(q)

\* sibling.giveFDs, the timeout watcher, whenever readyTimeoutC fires before
\* giveFDs has returned: the connection is closed, and a Read that begins
\* afterwards fails at once.
timeoutWatcherFires(q) ==
    /\ hpc[q] \in {"giveFDs", "awaitReady", "readyHandshake", "steppingDown"}
    /\ timedOut[q] = "no"
    /\ timedOut' = [timedOut EXCEPT ![q] = hpc[q]]
    /\ ownerEnd' = [ownerEnd EXCEPT ![q] = FALSE]
    /\ UNCHANGED <<procVars, storeVars, coordVars, sessOwner, peerEnd, toPeer,
                   toOwner, hpc, passedFiles>>
    /\ UNCHANGED envVars

\* sibling.giveFDs, the timeout watcher, when readyTimeoutC fires while the
\* handler's Read is in progress on a connection in blocking mode: the Read
\* is inside the system call, s.conn.Close() waits for it, and connFile is
\* not closed before s.conn.Close() returns, so the descriptor stays open.
timeoutWatcherDuringRead(q) ==
    /\ ReadBlocks(q) /\ connBlocking(q)
    /\ timedOut[q] = "no"
    /\ timedOut' = [timedOut EXCEPT ![q] = "blockedRead"]
    /\ UNCHANGED <<procVars, storeVars, coordVars, connVars, hpc, passedFiles>>
    /\ UNCHANGED envVars

\* The Read the watcher's Close waits for returns when the peer writes or
\* closes its end; then Close and connFile.Close() complete.
blockedReadReturns(q) ==
    /\ hpc[q] \in {"awaitReady", "readyHandshake"}
    /\ timedOut[q] = "blockedRead"
    /\ toOwner[q] # <<>> \/ ~peerEnd[q]
    /\ LET frame == IF toOwner[q] # <<>> THEN Head(toOwner[q]) ELSE EOF IN
            hpc' = [hpc EXCEPT ![q] =
                        IF hpc[q] = "awaitReady" THEN awaitReadyNext(frame)
                        ELSE readyHandshakeNext(frame)]
    /\ toOwner' = [toOwner EXCEPT ![q] = IF @ # <<>> THEN Tail(@) ELSE @]
    /\ ownerEnd' = [ownerEnd EXCEPT ![q] = FALSE]
    /\ timedOut' = [timedOut EXCEPT ![q] = hpc[q]]
    /\ UNCHANGED <<procVars, storeVars, coordVars, sessOwner, peerEnd, toPeer,
                   passedFiles>>
    /\ UNCHANGED envVars

\* The steps of the owner's goroutines: the accept loop and the handlers.
\* A Read the watcher's Close waits for is not begun again.
OwnerStep ==
    \/ \E q \in Procs : serveUpgrades(q)
    \/ \E q \in Procs : handleUpgradeRequest(q)
    \/ \E q \in Procs : handlerLockMutations(q)
    \/ \E q \in Procs : handlerCopy(q)
    \/ \E q \in Procs : giveFDs(q)
    \/ \E q \in Procs : timedOut[q] # "blockedRead" /\ awaitReady(q)
    \/ \E q \in Procs : timedOut[q] # "blockedRead" /\ readyHandshake(q)
    \/ \E q \in Procs : blockedReadReturns(q)
    \/ \E q \in Procs : steppingDown(q)
    \/ \E q \in Procs : handlerRemainOwner(q)
    \/ \E q \in Procs : handlerUnlockMutations(q)
    \/ \E q \in Procs : handlerLockCompleted(q)
    \/ \E q \in Procs : handlerDraining(q)
    \/ \E q \in Procs : handlerCloseUpgradeComplete(q)

\* The upgrade timer of a handler fires.
TimerStep ==
    \/ \E q \in Procs : timeoutWatcherFires(q)
    \/ \E q \in Procs : timeoutWatcherDuringRead(q)

\* The steps of the peers and of the application, which may never come.
PeerStep ==
    \/ \E p \in Procs : NewListen(p)
    \/ \E p \in Procs : connectToCurrentOwner(p)
    \/ \E p \in Procs : getFiles(p)
    \/ \E p \in Procs : Ready(p)
    \/ \E p \in Procs : readyHandshakeSendVersion(p)
    \/ \E p \in Procs : readyHandshakeAwait(p)
    \/ \E p \in Procs, id \in FdIds : Add(p, id)

NextTimer == OwnerStep \/ TimerStep \/ PeerStep

\* The owner's goroutines run while they can and every upgrade timer fires;
\* nothing is assumed of the peers.
SpecTimer ==
    Init /\ [][NextTimer]_vars /\ WF_vars(OwnerStep) /\ WF_vars(TimerStep)

\* C37: every upgrade request the owner starts handling terminates: the
\* state TransferringOwnership is always eventually left, even if the peer
\* never reads, never writes and never closes its end.
C37_TransferringOwnershipIsLeft ==
    \A o \in Procs :
        state[o] = upgraderStateTransferringOwnership
            ~> state[o] # upgraderStateTransferringOwnership

\* C37 witness: the timer fired while the handler was reading on a
\* connection over which a file had been sent; the peer, constructed, has
\* written nothing and holds its end open, and the owner is still
\* TransferringOwnership.
C37_TimerFiredReadStillBlocked ==
    \E q \in Procs :
        /\ timedOut[q] = "blockedRead" /\ hpc[q] = "awaitReady"
        /\ phase[q] = "constructed" /\ peerEnd[q] /\ toOwner[q] = <<>>
        /\ state[OwnerOf(q)] = upgraderStateTransferringOwnership

\* ------------------------------------------------------------ after UpgradeComplete
\* The handler of q's request, read from the accept queue, makes its first
\* move in this step: it is refused or it takes the owner to
\* TransferringOwnership.
RequestAnswered(q) == hpc[q] = "transitionTo" /\ hpc'[q] # "transitionTo"

\* C38: whenever UpgradeComplete is closed the upgrader is Draining or
\* Stopped; from then on it is never Owner or TransferringOwnership again,
\* and every upgrade request it answers is refused.
C38_ClosedMeansDrainingOrStopped ==
    /\ [](\A p \in Procs : upgradeCompleteC[p] = "closed" =>
            state[p] \in {upgraderStateDraining, upgraderStateStopped})
    /\ [][\A p \in Procs : upgradeCompleteC[p] = "closed" =>
            /\ state'[p] \in {upgraderStateDraining, upgraderStateStopped}
            /\ \A q \in ConnsOf(p) :
                    RequestAnswered(q) =>
                        /\ hpc'[q] \in {"refused", "refusedDraining", "crashed"}
                        /\ state'[p] = state[p]]_vars

\* C38 witness: the owner's handler closed UpgradeComplete after a handoff
\* that succeeded, and the owner, whose Ready was called a second time
\* during the handoff, is Owner.
C38_OwnerAfterComplete ==
    \E p, n \in Procs :
        /\ sessOwner[n] = p /\ hpc[n] = "completed"
        /\ upgradeCompleteC[p] = "closed"
        /\ state[p] = upgraderStateOwner

\* ------------------------------------------------------------ Ready after Ready
\* C39: once Ready has succeeded, a later call of Ready, in whatever state
\* the upgrader is then (TransferringOwnership included), returns an error,
\* does not write the owner-id file and leaves the state as it is.
C39_SecondReadyRejected ==
    [][\A p \in Procs :
        (readyErr[p] = ErrNil /\ ReadyAgain(p))
        => /\ readyErr'[p] # ErrNil
           /\ idFile' = idFile
           /\ state' = state]_vars

\* C39 witness: Ready of the owner has returned nil, the handler of a
\* request is in the middle of the handoff, after the transition to
\* TransferringOwnership and before giveFDs has returned, and the upgrader
\* is Owner.
C39_OwnerDuringHandoff ==
    \E p, q \in Procs :
        /\ sessOwner[q] = p /\ sessOwner[p] = NoProc
        /\ phase[p] = "readied" /\ readyErr[p] = ErrNil
        /\ hpc[q] \in {"lockMutations", "copy", "giveFDs", "awaitReady"}
        /\ state[p] = upgraderStateOwner

\* ------------------------------------------------------------ damaged records
\* The most bytes cut from the end of a record.
MaxCut == 3
\* What happens to a record between the writer and the reader: the length
\* is negative (its highest bit is set), the stream ends after the length
\* or a few bytes before the end of the record, or the stream ends inside
\* the length.
Faults ==
    {[kind |-> "none"], [kind |-> "negative"], [kind |-> "lengthOnly"],
     [kind |-> "shortLength"]}
        \cup {[kind |-> "cut", by |-> k] : k \in 1..MaxCut}

\* The bytes the reader finds for a record with a fault; after a record of
\* which the end is missing the stream is at its end.
Damaged(record, tail, fault) ==
    IF fault.kind = "negative"
    THEN <<record[1] + 128>> \o Tail(record) \o tail
    ELSE IF fault.kind = "lengthOnly" THEN SubSeq(record, 1, 4)
    ELSE IF fault.kind = "shortLength" THEN SubSeq(record, 1, 2)
    ELSE IF fault.kind = "cut" THEN SubSeq(record, 1, Len(record) - fault.by)
    ELSE record \o tail

\* A value, a version, the bytes after the record and a fault are chosen.
InitDamaged ==
    /\ NoProcesses
    /\ ctxDone = [p \in Procs |-> FALSE]
    /\ watcher = [p \in Procs |-> "none"]
    /\ newErr = [p \in Procs |-> "none"]
    /\ sockFile = [p \in Procs |-> FALSE]
    /\ ownerVersion = [p \in Procs |-> 0]
    /\ wire = <<>>
    /\ NoDescriptors
    /\ \E obj \in BlobObjs, v \in BlobVersions, tail \in Tails, fault \in Faults :
            codec = [pc |-> "write", obj |-> obj, version |-> v, tail |-> tail,
                     fault |-> fault]

\* The record is written and reaches the reader with its fault.
WriteDamaged ==
    /\ codec.pc = "write"
    /\ wire' = Damaged(WriteVersionedJSONBlob(codec.obj, codec.version),
                       codec.tail, codec.fault)
    /\ codec' = [codec EXCEPT !.pc = "read"]
    /\ protoFrame

\* ReadVersionedJSONBlob is called on what arrived; when it panics the
\* caller gets no result.
ReadDamaged ==
    /\ codec.pc = "read"
    /\ LET r == ReadVersionedJSONBlob(wire)
       IN /\ wire' = r.rest
          /\ codec' = [pc |-> IF r.err = PanicMakesliceLen THEN "panicked" ELSE "done",
                       obj |-> codec.obj, version |-> codec.version,
                       tail |-> codec.tail, fault |-> codec.fault,
                       result |-> [version |-> r.version, obj |-> r.obj, err |-> r.err]]
    /\ protoFrame

NextDamaged == WriteDamaged \/ ReadDamaged

SpecDamaged == InitDamaged /\ [][NextDamaged]_vars

\* The errors ReadVersionedJSONBlob returns when the record cannot be read
\* from src.
ProtocolErrors == {ErrReadLength, ErrReadJSON}

\* C40: when the declared length of a record is negative, or larger than
\* the number of bytes that follow it, ReadVersionedJSONBlob returns a
\* protocol error without a panic and decodes nothing into the target.
C40_BadLengthIsAnError ==
    (codec.pc \in {"done", "panicked"} /\ codec.fault.kind \in {"negative", "lengthOnly", "cut"})
    => /\ codec.pc = "done"
       /\ codec.result.err \in ProtocolErrors
       /\ codec.result.obj = <<>>

\* C40 witness: the reader was called on a record of a list that is not
\* empty, whose length had become negative, and it panicked.
C40_NegativeLengthPanicked ==
    /\ codec.pc = "panicked"
    /\ codec.fault.kind = "negative"
    /\ codec.obj # <<>>
    /\ codec.result.err = PanicMakesliceLen

====
